---- MODULE Spec2Model ----
(***************************************************************************)
(* A model of the BHI160 driver crate: the register transaction primitive  *)
(* (read_reg, write_reg, update_reg), the parameter exchange protocol      *)
(* (read_param, write_param), the firmware upload sequence and the FIFO    *)
(* read of src/src/lib.rs, over the register encodings of                  *)
(* src/src/registers.rs.  One action is one bus transaction of a call.     *)
(* The device behind the bus is the environment: it serves or rejects the  *)
(* pending parameter request as the register documentation describes.      *)
(* The firmware blob of src/src/firmware.rs and the FIFO event decoder of  *)
(* src/src/packet.rs use no bus: one action is one call of a method.       *)
(***************************************************************************)
EXTENDS Integers, Sequences, FiniteSets, TLC

VARIABLES
    pc,          \* pc[h]: position of handle h inside its current call
    op,          \* op[h]: the call handle h is running (kind and arguments)
    trace,       \* trace[h]: bus transactions issued by the current call of h
    result,      \* result[h]: what the current call returned
    dev,         \* the device's registers
    interleaved, \* interleaved[h]: another handle used the bus mid-call of h
    fw,          \* a buffer handed to Firmware::new and what was made of it
    reader       \* the bytes handed to a function of packet.rs, and its last call

vars == <<pc, op, trace, result, dev, interleaved, fw, reader>>

\* The state of the handles and the device.
busVars == <<pc, op, trace, result, dev, interleaved>>

----------------------------------------------------------------------------
(* Bounds of the model.                                                     *)

\* Largest number of acknowledge reads one call records before the model
\* stops exploring further non-matching polls.
MaxPolls == 2

\* The handles that may share one device.
Handles == {1, 2}

\* Error values the bus may report.
BusErrors == {901, 902}

----------------------------------------------------------------------------
(* Register addresses and program constants.                                *)

FIFO_ADDR == 0
CHIP_CONTROL_ADDR == 52
BYTES_REMAINING_ADDR == 56
PARAM_ACK_ADDR == 58
PARAM_READ_ADDR == 59
PARAM_PAGE_SELECT_ADDR == 84
HOST_INTERFACE_CONTROL_ADDR == 85
PARAM_WRITE_ADDR == 92
PARAM_REQUEST_ADDR == 100
ROM_VERSION_ADDR == 112
UPLOAD_ADDRESS_ADDR == 148
UPLOAD_DATA_ADDR == 150
UPLOAD_CRC_ADDR == 151
ACK_ERROR == 128
MAX_READ_SIZE == 16
MAX_WRITE_SIZE == 8
CHUNK_LEN == 16

\* Request direction, the one-bit field of ParameterRequest.
RequestRead == 0
RequestWrite == 1

\* ParameterPage discriminants used by the parameters of the crate.
PageSystem == 1
PageSensors == 3

----------------------------------------------------------------------------
(* Byte-level encodings.                                                    *)

Min(a, b) == IF a < b THEN a ELSE b

\* u16::from_le_bytes / u32::from_le_bytes
RECURSIVE FromLeBytes(_)
FromLeBytes(bytes) ==
    IF bytes = <<>> THEN 0
    ELSE bytes[1] + 256 * FromLeBytes(Tail(bytes))

\* u16::to_be_bytes
U16ToBeBytes(x) == << (x \div 256) % 256, x % 256 >>

\* ParameterPageSelect: parameter_page in bits 0-3, parameter_size in bits 4-7.
PageSelectByte(page, size) == (page % 16) + 16 * (size % 16)

PageSelectPage(byte) == byte % 16

\* ParameterRequest: parameter in bits 0-6, request direction in bit 7.
RequestByte(param, request) == (param % 128) + 128 * (request % 2)

\* Mutant: cpu_run_request is set whatever is asked for.
ChipControlByte_RunSet(run, upload) ==
    1 + (IF upload THEN 2 ELSE 0)

\* ChipControl: cpu_run_request in bit 0, host_upload_enable in bit 1.
ChipControlByte(run, upload) ==
    (IF run THEN 1 ELSE 0) + (IF upload THEN 2 ELSE 0)

\* The size field read_param writes: the width, or 0 for the maximum.
ReadSizeField(size) == IF size < MAX_READ_SIZE THEN size % 256 ELSE 0

\* Mutant: write_param compares the width with the read maximum.
WriteSizeField_ReadMax(size) == IF size < MAX_READ_SIZE THEN size % 256 ELSE 0

\* The size field write_param writes: the width, or 0 for the maximum.
WriteSizeField(size) == IF size < MAX_WRITE_SIZE THEN size % 256 ELSE 0

\* Mutant: the error code is taken to be 0x00.
AckDecode_ErrorIsZero(byte) ==
    IF byte = 0 THEN [id |-> 0, tag |-> "Error"]
    ELSE [id |-> byte, tag |-> "RequestId"]

\* ParameterAcknowledge::from: 0x80 is Error, every other byte a RequestId.
AckDecode(byte) ==
    IF byte = ACK_ERROR THEN [id |-> 0, tag |-> "Error"]
    ELSE [id |-> byte, tag |-> "RequestId"]

\* Mutant: the guard `if x == ...` is dropped, any RequestId breaks the loop.
PollArm_AnyRequestId(ack, expect) ==
    IF ack.tag = "Error" THEN "todo" ELSE "break"

\* The match of a poll loop: what one decoded acknowledge makes the loop do.
\* `expect` is T::PARAM in read_param and the encoded request in write_param.
PollArm(ack, expect) ==
    IF ack.tag = "Error" THEN "todo"
    ELSE IF ack.id = expect THEN "break"
    ELSE "continue"

\* Mutant: read_param waits for the index after the requested one.
ReadExpect_OffByOne(param) == param + 1

\* The value read_param compares the acknowledge with.
ReadExpect(param) == param

\* Mutant: write_param compares with the bare index, as read_param does.
WriteExpect_BareIndex(param) == param

\* The value write_param compares the acknowledge with.
WriteExpect(param) == RequestByte(param, RequestWrite)

----------------------------------------------------------------------------
(* The calls a handle can make and their arguments.                         *)

\* Registers that can be written and read back.
RwRegs == {HOST_INTERFACE_CONTROL_ADDR}

\* T::ADDR and T::SIZE of the registers read_reg is used with here.
ReadRegs ==
    { [addr |-> HOST_INTERFACE_CONTROL_ADDR, size |-> 1],
      [addr |-> ROM_VERSION_ADDR, size |-> 2] }

\* Parameter types read here: AccelerometerInfo (Sensors, 1, 16 bytes), a
\* parameter of index 0, and a parameter of every width 1..16 at the place of
\* PhysicalSensorStatus (System, 31, declared with 15 bytes).
ReadParams ==
    { [page |-> PageSensors, param |-> 1, size |-> 16],
      [page |-> PageSystem, param |-> 0, size |-> 4] }
    \cup { [page |-> PageSystem, param |-> 31, size |-> n] : n \in 1..MAX_READ_SIZE }

\* Parameter types written here: a parameter of index 0, and a parameter of
\* every width 1..8 at the place of MetaEventControl (System, 1, declared
\* with 8 bytes).
WriteParams ==
    { [page |-> PageSystem, param |-> 0, size |-> 4] }
    \cup { [page |-> PageSystem, param |-> 1, size |-> n] : n \in 1..MAX_WRITE_SIZE }

\* Firmware bodies handed to upload_raw_firmware, by length.
FwLens == {0, 5, 16, 21, 32}

\* Lengths of the buffer handed to read_fifo.
BufLens == {0, 1, 3}

\* What the bytes-remaining register may hold: 0, 2 and 300.
RemainingSamples == { <<0, 0>>, <<2, 0>>, <<44, 1>> }

\* What the CRC register may hold after an upload.
CrcSamples == { <<0, 0, 0, 0>>, <<120, 86, 52, 18>> }

\* Byte i of a firmware body.
FwByte(i) == (7 * i + 1) % 256

FwBody(n) == [i \in 1..n |-> FwByte(i)]

\* The into_bytes() of a parameter value of the given width.
ParamBytes(size, arg) == [i \in 1..size |-> (arg + i) % 256]

\* The closure update_reg applies: it sets bit `bit` of the register byte.
UpdateFn(bit, byte) ==
    IF (byte \div bit) % 2 = 1 THEN byte ELSE (byte + bit) % 256

NoCall ==
    [addr |-> 0, arg |-> 0, kind |-> "none", page |-> 0, param |-> 0, size |-> 0]

Call(kind, addr, page, param, size, arg) ==
    [addr |-> addr, arg |-> arg, kind |-> kind, page |-> page,
     param |-> param, size |-> size]

ReadRegCalls == { Call("read_reg", r.addr, 0, 0, r.size, 0) : r \in ReadRegs }

\* write_reg of ChipControl, HostInterfaceControl and UploadAddress(0x0102).
WriteRegCalls ==
    { Call("write_reg", CHIP_CONTROL_ADDR, 0, 0, 1, ChipControlByte(TRUE, FALSE)),
      Call("write_reg", HOST_INTERFACE_CONTROL_ADDR, 0, 0, 1, 0),
      Call("write_reg", UPLOAD_ADDRESS_ADDR, 0, 0, 2, 258) }

\* write_reg::<HostInterfaceControl> by a second owner of the bus, setting
\* update_transfer_count or ned_coordinates.
WriterCalls ==
    { Call("write_reg", HOST_INTERFACE_CONTROL_ADDR, 0, 0, 1, v) : v \in {4, 16} }

UpdateRegCalls ==
    { Call("update_reg", HOST_INTERFACE_CONTROL_ADDR, 0, 0, 1, bit) : bit \in {1, 2} }

ReadParamCalls ==
    { Call("read_param", 0, p.page, p.param, p.size, 0) : p \in ReadParams }

WriteParamCalls ==
    { Call("write_param", 0, p.page, p.param, p.size, 0) : p \in WriteParams }

\* The parameter exchanges with the widths the crate declares.
DeclaredParamCalls ==
    { Call("read_param", 0, PageSensors, 1, 16, 0),
      Call("read_param", 0, PageSystem, 31, 15, 0),
      Call("write_param", 0, PageSystem, 1, 8, 0) }

UploadCalls == { Call("upload_raw_firmware", 0, 0, 0, n, 0) : n \in FwLens }

FifoCalls == { Call("read_fifo", 0, 0, 0, n, 0) : n \in BufLens }

\* The calls of a program that uses every operation of the handle.
Calls ==
    ReadRegCalls \cup WriteRegCalls \cup UpdateRegCalls \cup DeclaredParamCalls
    \cup UploadCalls \cup FifoCalls

\* The calls of a program that only exchanges parameters, of every width.
ParamCalls == ReadParamCalls \cup WriteParamCalls

\* The first bus transaction of each call.
FirstPc(kind) ==
    CASE kind = "read_reg" -> "rr_read"
      [] kind = "write_reg" -> "wr_write"
      [] kind = "update_reg" -> "ur_read"
      [] kind = "read_param" -> "rp_page"
      [] kind = "write_param" -> "wp_data"
      [] kind = "upload_raw_firmware" -> "up_chip"
      [] kind = "read_fifo" -> "rf_remaining"

----------------------------------------------------------------------------
(* Results and bus transactions.                                            *)

None == [tag |-> "None", val |-> <<>>]

Ok(val) == [tag |-> "Ok", val |-> val]

Err(e) == [tag |-> "Err", val |-> <<e>>]

Panic == [tag |-> "Panic", val |-> <<>>]

\* One call of Interface::read or Interface::write as the bus saw it.
Tx(rw, addr, len, data, o) ==
    [addr |-> addr, data |-> data, err |-> o.err, len |-> len, ok |-> o.ok, rw |-> rw]

\* Outcomes of one bus transaction: success, or a failure with its error; a
\* failed write may or may not have reached the device.
Outcomes ==
    { [applied |-> TRUE, err |-> 0, ok |-> TRUE] }
    \cup { [applied |-> a, err |-> e, ok |-> FALSE] : e \in BusErrors, a \in BOOLEAN }

ReadOutcomes ==
    { [applied |-> TRUE, err |-> 0, ok |-> TRUE] }
    \cup { [applied |-> FALSE, err |-> e, ok |-> FALSE] : e \in BusErrors }

\* A handle is in the middle of a call: it has used the bus and not returned.
MidCall(h) == trace[h] # <<>> /\ pc[h] \notin {"idle", "done", "panicked"}

\* Handle h uses the bus: every other handle in mid-call has been interleaved.
Touch(h) ==
    interleaved' =
        [g \in Handles |-> IF g # h /\ MidCall(g) THEN TRUE ELSE interleaved[g]]

\* Number of acknowledge reads the current call of h has issued.
Polls(h) == Cardinality({i \in 1..Len(trace[h]) : trace[h][i].addr = PARAM_ACK_ADDR})

----------------------------------------------------------------------------
(* The device.                                                              *)

\* The bytes the device presents at the parameter read-data register for the
\* parameter it last produced.
DataBytes(for, len) ==
    [i \in 1..len |-> (32 * for.page + 5 * for.idx + i) % 256]

\* The effect of a write transaction on the device's registers.
DevWrite(d, addr, bytes) ==
    CASE addr = PARAM_PAGE_SELECT_ADDR -> [d EXCEPT !.page = PageSelectPage(bytes[1])]
      [] addr = PARAM_REQUEST_ADDR ->
            [d EXCEPT !.req = bytes[1], !.pending = TRUE]
      [] addr \in RwRegs -> [d EXCEPT !.reg[addr] = bytes[1]]
      [] OTHER -> d

\* The device completes the pending request: the acknowledge register now
\* matches the request register, and a read request's data is produced.
DeviceServe ==
    /\ dev.pending
    /\ dev' = [dev EXCEPT
                 !.pending = FALSE,
                 !.ack = dev.req,
                 !.dataFor = IF dev.req \div 128 = RequestRead
                             THEN [idx |-> dev.req % 128, page |-> dev.page]
                             ELSE @]
    /\ UNCHANGED <<pc, op, trace, result, interleaved, fw, reader>>

\* The device does not support the requested page or parameter.
DeviceReject ==
    /\ dev.pending
    /\ dev' = [dev EXCEPT !.pending = FALSE, !.ack = ACK_ERROR]
    /\ UNCHANGED <<pc, op, trace, result, interleaved, fw, reader>>

\* The bytes a successful read of a plain register returns.
DevReadReg(d, addr, size) ==
    IF addr \in RwRegs THEN << d.reg[addr] >>
    ELSE [i \in 1..size |-> IF i = 1 THEN 173 ELSE 45]

\* The bytes the FIFO hands out on a read of `len` bytes.
FifoBytes(len) == [i \in 1..len |-> (11 * i) % 256]

----------------------------------------------------------------------------
(* Interface::write and Interface::read with `?`: the steps of every call.  *)

\* Mutant: the `?` is missing, a failed write is ignored and the call goes on.
BusWrite_ErrorIgnored(h, addr, bytes, next, okResult) ==
    \E o \in Outcomes :
        /\ trace' = [trace EXCEPT ![h] = Append(@, Tx("w", addr, Len(bytes), bytes, o))]
        /\ dev' = IF o.applied THEN DevWrite(dev, addr, bytes) ELSE dev
        /\ pc' = [pc EXCEPT ![h] = next]
        /\ result' = [result EXCEPT ![h] = okResult]
        /\ Touch(h)
        /\ UNCHANGED <<op, fw, reader>>

\* self.interface.write(addr, bytes)?  On success the call goes on at `next`
\* with `okResult`; on failure it returns the bus error.
BusWrite(h, addr, bytes, next, okResult) ==
    \E o \in Outcomes :
        /\ trace' = [trace EXCEPT ![h] = Append(@, Tx("w", addr, Len(bytes), bytes, o))]
        /\ dev' = IF o.applied THEN DevWrite(dev, addr, bytes) ELSE dev
        /\ pc' = [pc EXCEPT ![h] = IF o.ok THEN next ELSE "done"]
        /\ result' = [result EXCEPT ![h] = IF o.ok THEN okResult ELSE Err(o.err)]
        /\ Touch(h)
        /\ UNCHANGED <<op, fw, reader>>

\* self.interface.read(addr, buf)? of `len` bytes, the device answering
\* `bytes`.
BusRead(h, addr, len, bytes, next, okResult) ==
    \E o \in ReadOutcomes :
        /\ trace' = [trace EXCEPT ![h] =
                        Append(@, Tx("r", addr, len, IF o.ok THEN bytes ELSE <<>>, o))]
        /\ pc' = [pc EXCEPT ![h] = IF o.ok THEN next ELSE "done"]
        /\ result' = [result EXCEPT ![h] = IF o.ok THEN okResult ELSE Err(o.err)]
        /\ Touch(h)
        /\ UNCHANGED <<op, dev, fw, reader>>

\* The data of the last transaction of the current call.
LastData(h) == trace[h][Len(trace[h])].data

----------------------------------------------------------------------------
(* read_reg, write_reg, update_reg.                                         *)

\* reg.into(): the bytes of a register value, T::SIZE of them.
RegBytes(addr, value) ==
    IF addr = UPLOAD_ADDRESS_ADDR THEN U16ToBeBytes(value) ELSE << value % 256 >>

\* Mutant: the buffer is one byte whatever T::SIZE is.
ReadReg_OneByte(h) ==
    /\ pc[h] = "rr_read"
    /\ LET bytes == DevReadReg(dev, op[h].addr, 1)
       IN BusRead(h, op[h].addr, 1, bytes, "done", Ok(bytes))

ReadReg(h) ==
    /\ pc[h] = "rr_read"
    /\ LET bytes == DevReadReg(dev, op[h].addr, op[h].size)
       IN BusRead(h, op[h].addr, op[h].size, bytes, "done", Ok(bytes))

WriteReg(h) ==
    /\ pc[h] = "wr_write"
    /\ BusWrite(h, op[h].addr, RegBytes(op[h].addr, op[h].arg), "done", Ok(<<>>))

UpdateRegRead(h) ==
    /\ pc[h] = "ur_read"
    /\ BusRead(h, op[h].addr, op[h].size,
               DevReadReg(dev, op[h].addr, op[h].size), "ur_write", None)

\* Mutant: the value written is computed from the register as it is now.
UpdateRegWrite_FreshValue(h) ==
    /\ pc[h] = "ur_write"
    /\ BusWrite(h, op[h].addr, << UpdateFn(op[h].arg, dev.reg[op[h].addr]) >>,
                "done", Ok(<<>>))

UpdateRegWrite(h) ==
    /\ pc[h] = "ur_write"
    /\ BusWrite(h, op[h].addr, << UpdateFn(op[h].arg, LastData(h)[1]) >>,
                "done", Ok(<<>>))

----------------------------------------------------------------------------
(* read_param.                                                              *)

ReadParamPage(h) ==
    /\ pc[h] = "rp_page"
    /\ BusWrite(h, PARAM_PAGE_SELECT_ADDR,
                << PageSelectByte(op[h].page, ReadSizeField(op[h].size)) >>,
                "rp_request", None)

\* Mutant: the poll loop is missing, the data is read right after the request.
ReadParamRequest_NoPoll(h) ==
    /\ pc[h] = "rp_request"
    /\ BusWrite(h, PARAM_REQUEST_ADDR,
                << RequestByte(op[h].param, RequestRead) >>, "rp_data", None)

ReadParamRequest(h) ==
    /\ pc[h] = "rp_request"
    /\ BusWrite(h, PARAM_REQUEST_ADDR,
                << RequestByte(op[h].param, RequestRead) >>, "rp_poll", None)

\* Mutant: the loop gives up with an error after its first non-matching read.
PollStep_Bounded(h, expect, here, after) ==
    \E o \in ReadOutcomes :
        LET bytes == << dev.ack >>
            arm == PollArm(AckDecode(bytes[1]), expect)
        IN  /\ trace' = [trace EXCEPT ![h] =
                            Append(@, Tx("r", PARAM_ACK_ADDR, 1,
                                         IF o.ok THEN bytes ELSE <<>>, o))]
            /\ pc' = [pc EXCEPT ![h] =
                        IF ~o.ok THEN "done"
                        ELSE IF arm = "todo" THEN "panicked"
                        ELSE IF arm = "break" THEN after
                        ELSE "done"]
            /\ result' = [result EXCEPT ![h] =
                            IF ~o.ok THEN Err(o.err)
                            ELSE IF arm = "todo" THEN Panic
                            ELSE IF arm = "break" THEN None
                            ELSE Err(0)]
            /\ Touch(h)
            /\ UNCHANGED <<op, dev, fw, reader>>

\* One iteration of a poll loop: read the acknowledge register and match it.
\* `after` is where the call goes on once the loop breaks.
PollStep(h, expect, here, after) ==
    \E o \in ReadOutcomes :
        LET bytes == << dev.ack >>
            arm == PollArm(AckDecode(bytes[1]), expect)
        IN  /\ (o.ok /\ arm = "continue") => Polls(h) < MaxPolls
            /\ trace' = [trace EXCEPT ![h] =
                            Append(@, Tx("r", PARAM_ACK_ADDR, 1,
                                         IF o.ok THEN bytes ELSE <<>>, o))]
            /\ pc' = [pc EXCEPT ![h] =
                        IF ~o.ok THEN "done"
                        ELSE IF arm = "todo" THEN "panicked"
                        ELSE IF arm = "break" THEN after
                        ELSE here]
            /\ result' = [result EXCEPT ![h] =
                            IF ~o.ok THEN Err(o.err)
                            ELSE IF arm = "todo" THEN Panic
                            ELSE None]
            /\ Touch(h)
            /\ UNCHANGED <<op, dev, fw, reader>>

ReadParamPoll(h) ==
    /\ pc[h] = "rp_poll"
    /\ PollStep(h, ReadExpect(op[h].param), "rp_poll", "rp_data")

ReadParamData(h) ==
    /\ pc[h] = "rp_data"
    /\ LET bytes == DataBytes(dev.dataFor, op[h].size)
       IN BusRead(h, PARAM_READ_ADDR, op[h].size, bytes, "done", Ok(bytes))

----------------------------------------------------------------------------
(* write_param.                                                             *)

WriteParamData(h) ==
    /\ pc[h] = "wp_data"
    /\ BusWrite(h, PARAM_WRITE_ADDR, ParamBytes(op[h].size, op[h].arg),
                "wp_page", None)

WriteParamPage(h) ==
    /\ pc[h] = "wp_page"
    /\ BusWrite(h, PARAM_PAGE_SELECT_ADDR,
                << PageSelectByte(op[h].page, WriteSizeField(op[h].size)) >>,
                "wp_request", None)

WriteParamRequest(h) ==
    /\ pc[h] = "wp_request"
    /\ BusWrite(h, PARAM_REQUEST_ADDR,
                << RequestByte(op[h].param, RequestWrite) >>, "wp_poll", None)

WriteParamPoll(h) ==
    /\ pc[h] = "wp_poll"
    /\ PollStep(h, WriteExpect(op[h].param), "wp_poll", "wp_close")

\* Mutant: the closing request keeps the direction of the request before it.
WriteParamClose_WriteDirection(h) ==
    /\ pc[h] = "wp_close"
    /\ BusWrite(h, PARAM_REQUEST_ADDR, << RequestByte(0, RequestWrite) >>,
                "done", Ok(<<>>))

WriteParamClose(h) ==
    /\ pc[h] = "wp_close"
    /\ BusWrite(h, PARAM_REQUEST_ADDR, << RequestByte(0, RequestRead) >>,
                "done", Ok(<<>>))

----------------------------------------------------------------------------
(* upload_raw_firmware.                                                     *)

\* firmware.chunks_exact(16): the number of chunks and chunk k (from 1).
NumChunks(n) == n \div CHUNK_LEN

\* Mutant: the chunk iterator does not advance.
Chunk_Repeat(body, k) == SubSeq(body, 1, CHUNK_LEN)

Chunk(body, k) == SubSeq(body, CHUNK_LEN * (k - 1) + 1, CHUNK_LEN * k)

\* Number of chunks the current call has written (or tried to write).
ChunksWritten(h) ==
    Cardinality({i \in 1..Len(trace[h]) : trace[h][i].addr = UPLOAD_DATA_ADDR})

UploadChip(h) ==
    /\ pc[h] = "up_chip"
    /\ BusWrite(h, CHIP_CONTROL_ADDR, << ChipControlByte(FALSE, TRUE) >>,
                "up_addr", None)

UploadAddr(h) ==
    /\ pc[h] = "up_addr"
    /\ BusWrite(h, UPLOAD_ADDRESS_ADDR, U16ToBeBytes(0),
                IF NumChunks(op[h].size) > 0 THEN "up_chunk" ELSE "up_crc", None)

\* Mutant: the CRC is read after the first chunk.
UploadChunk_EarlyCrc(h) ==
    /\ pc[h] = "up_chunk"
    /\ LET k == ChunksWritten(h) + 1
       IN BusWrite(h, UPLOAD_DATA_ADDR, Chunk(FwBody(op[h].size), k), "up_crc", None)

UploadChunk(h) ==
    /\ pc[h] = "up_chunk"
    /\ LET k == ChunksWritten(h) + 1
       IN BusWrite(h, UPLOAD_DATA_ADDR, Chunk(FwBody(op[h].size), k),
                   IF k < NumChunks(op[h].size) THEN "up_chunk" ELSE "up_crc", None)

UploadCrc(h) ==
    /\ pc[h] = "up_crc"
    /\ \E bytes \in CrcSamples :
          BusRead(h, UPLOAD_CRC_ADDR, 4, bytes, "done", Ok(<< FromLeBytes(bytes) >>))

----------------------------------------------------------------------------
(* read_fifo.                                                               *)

\* Mutant: the whole buffer is handed to the FIFO read.
FifoEnd_WholeBuffer(buflen, remaining) == buflen

\* buf.len().min(remaining as usize)
FifoEnd(buflen, remaining) == Min(buflen, remaining)

FifoRemaining(h) ==
    /\ pc[h] = "rf_remaining"
    /\ \E bytes \in RemainingSamples :
          LET end == FifoEnd(op[h].size, FromLeBytes(bytes))
          IN BusRead(h, BYTES_REMAINING_ADDR, 2, bytes,
                     IF end > 0 THEN "rf_data" ELSE "done",
                     IF end > 0 THEN None ELSE Ok(<<>>))

FifoData(h) ==
    /\ pc[h] = "rf_data"
    /\ LET end == FifoEnd(op[h].size, FromLeBytes(LastData(h)))
       IN BusRead(h, FIFO_ADDR, end, FifoBytes(end), "done", Ok(FifoBytes(end)))

----------------------------------------------------------------------------
(* The program: a handle makes one call after another.                      *)

\* The four header accessors of a blob not read yet.
NoFields == [crc |-> 0, data_len |-> 0, rom_version |-> 0, signature |-> 0]

\* No buffer has been handed to Firmware::new.
NoFirmware ==
    [body |-> <<>>, fields |-> NoFields, inner |-> <<>>, made |-> "None",
     sent |-> <<>>, stage |-> "absent"]

\* No byte source has been handed to the decoder.  `yielded` holds the events
\* next() has returned so far, and `ended` tells whether it has returned None.
NoReader ==
    [call |-> "none", data |-> <<>>, ended |-> FALSE, from |-> 0, out |-> None,
     pos |-> 0, yielded |-> <<>>]

\* Handle h, not inside a call, starts one of `calls`.
BeginCall(h, calls) ==
    /\ pc[h] \in {"idle", "done"}
    /\ \E c \in calls :
          /\ op' = [op EXCEPT ![h] = c]
          /\ pc' = [pc EXCEPT ![h] = FirstPc(c.kind)]
    /\ trace' = [trace EXCEPT ![h] = <<>>]
    /\ result' = [result EXCEPT ![h] = None]
    /\ interleaved' = [interleaved EXCEPT ![h] = FALSE]
    /\ UNCHANGED <<dev, fw, reader>>

Begin(h) == BeginCall(h, Calls)

BeginParam(h) == BeginCall(h, ParamCalls)

\* The acknowledge register holds whatever an earlier session left in it.
AckAtStart == {0, 1, ACK_ERROR}

InitDev(ack) ==
    [ack |-> ack, dataFor |-> [idx |-> 0, page |-> 0], page |-> 0,
     pending |-> FALSE, reg |-> [a \in RwRegs |-> 0], req |-> 0]

Init ==
    /\ pc = [h \in Handles |-> "idle"]
    /\ op = [h \in Handles |-> NoCall]
    /\ trace = [h \in Handles |-> <<>>]
    /\ result = [h \in Handles |-> None]
    /\ interleaved = [h \in Handles |-> FALSE]
    /\ \E ack \in AckAtStart : dev = InitDev(ack)
    /\ fw = NoFirmware
    /\ reader = NoReader

\* The device's own steps.
DeviceNext == DeviceServe \/ DeviceReject

\* One step of a parameter exchange of handle h.
ParamStep(h) ==
    \/ ReadParamPage(h)
    \/ ReadParamRequest(h)
    \/ ReadParamPoll(h)
    \/ ReadParamData(h)
    \/ WriteParamData(h)
    \/ WriteParamPage(h)
    \/ WriteParamRequest(h)
    \/ WriteParamPoll(h)
    \/ WriteParamClose(h)

\* One step of a call of handle h.
HostStep(h) ==
    \/ ParamStep(h)
    \/ ReadReg(h)
    \/ WriteReg(h)
    \/ UpdateRegRead(h)
    \/ UpdateRegWrite(h)
    \/ UploadChip(h)
    \/ UploadAddr(h)
    \/ UploadChunk(h)
    \/ UploadCrc(h)
    \/ FifoRemaining(h)
    \/ FifoData(h)

\* Access serialised through one handle.
Next == Begin(1) \/ HostStep(1) \/ DeviceNext

Spec == Init /\ [][Next]_vars

\* A program that only exchanges parameters through one handle.
ParamNext == BeginParam(1) \/ ParamStep(1) \/ DeviceNext

ParamSpec == Init /\ [][ParamNext]_vars

----------------------------------------------------------------------------
(* One parameter exchange of a running program.                             *)

\* A handle has just entered a parameter exchange on a device in any state
\* an earlier session may have left.
LiveInit ==
    /\ \E c \in ParamCalls :
          /\ op = [h \in Handles |-> IF h = 1 THEN c ELSE NoCall]
          /\ pc = [h \in Handles |-> IF h = 1 THEN FirstPc(c.kind) ELSE "idle"]
    /\ trace = [h \in Handles |-> <<>>]
    /\ result = [h \in Handles |-> None]
    /\ interleaved = [h \in Handles |-> FALSE]
    /\ \E ack \in AckAtStart : dev = InitDev(ack)
    /\ fw = NoFirmware
    /\ reader = NoReader

LiveNext == ParamStep(1) \/ DeviceNext

\* A step of the exchange whose bus transaction succeeded.
BusOkStep(h) == ParamStep(h) /\ trace'[h][Len(trace'[h])].ok

\* The call is synchronous code: as long as the bus answers, it runs on.
LiveSpec == LiveInit /\ [][LiveNext]_vars /\ WF_vars(BusOkStep(1))

----------------------------------------------------------------------------
(* One write_param of a parameter of any index.                             *)

\* write_param of a 4-byte parameter type with each PARAM the 7-bit field of
\* ParameterRequest can hold.
EchoCalls == { Call("write_param", 0, PageSystem, p, 4, 0) : p \in 0..127 }

WriteParamStep(h) ==
    \/ WriteParamData(h)
    \/ WriteParamPage(h)
    \/ WriteParamRequest(h)
    \/ WriteParamPoll(h)
    \/ WriteParamClose(h)

EchoInit ==
    /\ \E c \in EchoCalls :
          /\ op = [h \in Handles |-> IF h = 1 THEN c ELSE NoCall]
          /\ pc = [h \in Handles |-> IF h = 1 THEN FirstPc(c.kind) ELSE "idle"]
    /\ trace = [h \in Handles |-> <<>>]
    /\ result = [h \in Handles |-> None]
    /\ interleaved = [h \in Handles |-> FALSE]
    /\ \E ack \in AckAtStart : dev = InitDev(ack)
    /\ fw = NoFirmware
    /\ reader = NoReader

EchoNext == WriteParamStep(1) \/ DeviceNext

EchoSpec == EchoInit /\ [][EchoNext]_vars

----------------------------------------------------------------------------
(* Two handles on one device, each reading its own parameter.               *)

\* read_param::<AccelerometerInfo>() and read_param::<PhysicalSensorStatus>()
RaceCalls ==
    << Call("read_param", 0, PageSensors, 1, 16, 0),
       Call("read_param", 0, PageSystem, 31, 15, 0) >>

\* The call of handle h.
RaceCall(h) == RaceCalls[h]

BeginRace(h) == BeginCall(h, {RaceCall(h)})

ReadParamStep(h) ==
    \/ ReadParamPage(h)
    \/ ReadParamRequest(h)
    \/ ReadParamPoll(h)
    \/ ReadParamData(h)

RaceNext ==
    \/ \E h \in Handles : BeginRace(h)
    \/ \E h \in Handles : ReadParamStep(h)
    \/ DeviceNext

RaceSpec == Init /\ [][RaceNext]_vars

----------------------------------------------------------------------------
(* The firmware blob: Firmware::new, the header accessors and body().       *)

HEADER_LEN == 16
SIGNATURE == 25898

\* self.0.as_ref()[0..=1], little-endian.
signature(inner) == FromLeBytes(SubSeq(inner, 1, 2))

rom_version(inner) == FromLeBytes(SubSeq(inner, 3, 4))

\* Mutant: the CRC is taken from the four bytes after it.
crc_NextWord(inner) == FromLeBytes(SubSeq(inner, 9, 12))

crc(inner) == FromLeBytes(SubSeq(inner, 5, 8))

data_len(inner) == FromLeBytes(SubSeq(inner, 13, 14))

\* Mutant: the length of the body is not compared with the header field.
Firmware_new_NoLengthCheck(inner) ==
    IF Len(inner) < HEADER_LEN THEN "None"
    ELSE IF signature(inner) # SIGNATURE THEN "None"
    ELSE "Some"

\* Firmware::new: None or Some(Firmware(inner)).
Firmware_new(inner) ==
    IF Len(inner) < HEADER_LEN THEN "None"
    ELSE IF signature(inner) # SIGNATURE THEN "None"
    ELSE IF data_len(inner) + 16 # Len(inner) THEN "None"
    ELSE "Some"

\* chunk.iter().rev()
Rev(s) == [i \in 1..Len(s) |-> s[Len(s) + 1 - i]]

\* .array_chunks::<4>().flat_map(|chunk| chunk.iter().rev().copied())
RECURSIVE ArrayChunksRev(_)
ArrayChunksRev(s) ==
    IF Len(s) < 4 THEN <<>>
    ELSE Rev(SubSeq(s, 1, 4)) \o ArrayChunksRev(SubSeq(s, 5, Len(s)))

\* Mutant: the groups are emitted as they are stored.
body_NoSwap(inner) ==
    LET rest == SubSeq(inner, HEADER_LEN + 1, Len(inner))
    IN SubSeq(rest, 1, 4 * (Len(rest) \div 4))

\* Firmware::body, collected.
body(inner) == ArrayChunksRev(SubSeq(inner, HEADER_LEN + 1, Len(inner)))

\* The four accessors of a blob.
HeaderFields(inner) ==
    [crc |-> crc(inner), data_len |-> data_len(inner),
     rom_version |-> rom_version(inner), signature |-> signature(inner)]

\* Header fields of the buffers tried: signatures 0x652A, 0x2A65 and 0x642A.
SigSamples == { <<42, 101>>, <<101, 42>>, <<42, 100>> }

RomSamples == { <<16, 32>>, <<1, 0>> }

Pad4Samples == { <<0, 0, 0, 0>>, <<9, 8, 7, 6>> }

Pad2Samples == { <<0, 0>>, <<255, 1>> }

\* Length fields 0, 4, 5, 8, 16 and 260.
DataLenSamples == { <<0, 0>>, <<4, 0>>, <<5, 0>>, <<8, 0>>, <<16, 0>>, <<4, 1>> }

\* Lengths of what follows the header.
BodyLens == {0, 3, 4, 5, 8, 16}

\* Lengths of the buffers that end inside the header.
ShortLens == {0, 2, 15}

FullBuffers ==
    { sig \o rom \o c \o p4 \o dl \o p2 \o FwBody(n) :
        sig \in SigSamples, rom \in RomSamples, c \in CrcSamples,
        p4 \in Pad4Samples, dl \in DataLenSamples, p2 \in Pad2Samples,
        n \in BodyLens }

\* The buffers handed to Firmware::new.
FwBuffers == FullBuffers \cup { SubSeq(b, 1, k) : b \in FullBuffers, k \in ShortLens }

\* let fw = Firmware::new(inner)
FirmwareNew ==
    /\ fw.stage = "given"
    /\ fw' = [fw EXCEPT !.made = Firmware_new(fw.inner), !.stage = "made"]
    /\ UNCHANGED <<busVars, reader>>

\* fw.signature(), fw.rom_version(), fw.crc(), fw.data_len()
FirmwareFields ==
    /\ fw.stage = "made" /\ fw.made = "Some"
    /\ fw' = [fw EXCEPT !.fields = HeaderFields(fw.inner), !.stage = "fields"]
    /\ UNCHANGED <<busVars, reader>>

\* fw.body().collect()
FirmwareBody ==
    /\ fw.stage \in {"made", "fields"} /\ fw.made = "Some"
    /\ fw' = [fw EXCEPT !.body = body(fw.inner), !.stage = "body"]
    /\ UNCHANGED <<busVars, reader>>

\* The bytes the loop of upload_raw_firmware writes to the upload-data
\* register for the slice given, every write succeeding: its chunks of 16
\* from the k-th on, one after the other.
RECURSIVE Burst(_, _)
Burst(firmware, k) ==
    IF k > NumChunks(Len(firmware)) THEN <<>>
    ELSE Chunk(firmware, k) \o Burst(firmware, k + 1)

\* bhi.upload_raw_firmware(&fw.body().collect::<Vec<u8>>()) on a bus that
\* accepts every write: what reaches the upload-data register.
FirmwareUpload ==
    /\ fw.stage = "body"
    /\ fw' = [fw EXCEPT !.sent = Burst(fw.body, 1), !.stage = "sent"]
    /\ UNCHANGED <<busVars, reader>>

FirmwareInit ==
    /\ pc = [h \in Handles |-> "idle"]
    /\ op = [h \in Handles |-> NoCall]
    /\ trace = [h \in Handles |-> <<>>]
    /\ result = [h \in Handles |-> None]
    /\ interleaved = [h \in Handles |-> FALSE]
    /\ dev = InitDev(0)
    /\ reader = NoReader
    /\ \E b \in FwBuffers : fw = [NoFirmware EXCEPT !.inner = b, !.stage = "given"]

FirmwareNext == FirmwareNew \/ FirmwareFields \/ FirmwareBody \/ FirmwareUpload

FirmwareSpec == FirmwareInit /\ [][FirmwareNext]_vars

----------------------------------------------------------------------------
(* The FIFO event decoder: SensorId, SensorStatus, MetaEvent, SensorData,   *)
(* Event::read and EventReader::next.                                       *)

\* The arms of the match in Event::read, by SensorId discriminant.
QuaternionIds == {11, 43, 15, 47, 20, 52}

VectorStatusIds == {1, 33, 2, 34, 3, 35, 4, 36, 9, 41, 10, 42}

I16ScalarIds == {5, 37, 8, 40, 12, 44, 7, 39, 13, 45}

U16ScalarIds == {19, 51, 31, 63, 252, 246, 253, 247}

PressureIds == {6, 38}

EventIds == {17, 49, 18, 50, 22, 54, 23, 55, 24, 56, 25, 57}

VectorBiasIds == {14, 46, 16, 48}

HeartRateIds == {21, 53}

DebugIds == {245}

RawIds == {251, 250, 249}

MetaEventIds == {254, 248}

\* The bytes SensorId::from_bytes maps; 0 is SensorId::None.
SensorIds ==
    {0} \cup QuaternionIds \cup VectorStatusIds \cup I16ScalarIds
    \cup U16ScalarIds \cup PressureIds \cup EventIds \cup VectorBiasIds
    \cup HeartRateIds \cup DebugIds \cup RawIds \cup MetaEventIds

\* Mutant: the two bytes are read as an unsigned value.
I16_Unsigned(lo, hi) == lo + 256 * hi

\* i16::from_le_bytes([lo, hi])
I16(lo, hi) == ((lo + 256 * hi + 32768) % 65536) - 32768

\* i32::from_le_bytes(b): the top bit of the last byte is the sign.
I32(b) ==
    IF b[4] >= 128
    THEN (FromLeBytes(<< b[1], b[2], b[3], b[4] - 128 >>) - 2147483647) - 1
    ELSE FromLeBytes(b)

\* Mutant: the value is cut to 16 bits before it is widened.
AsI32_Narrow(x) == IF x > 32767 THEN (x % 65536) - 65536 ELSE x

\* x as i32, for x of an integer type of at most 32 bits: values above
\* i32::MAX wrap to the negative range, all others are kept.
AsI32(x) == IF x > 2147483647 THEN ((x - 2147483647) - 2147483647) - 2 ELSE x

\* u32::from_le_bytes(b), kept as its two 16-bit halves, low half first (the
\* value itself can exceed the integers of the model checker).
U32Halves(b) == << FromLeBytes(SubSeq(b, 1, 2)), FromLeBytes(SubSeq(b, 3, 4)) >>

\* Mutant: only the two low bits of the byte are looked at.
SensorStatus_try_from_Masked(src) ==
    CASE src % 4 = 0 -> "Unreliable"
      [] src % 4 = 1 -> "Low"
      [] src % 4 = 2 -> "Medium"
      [] src % 4 = 3 -> "High"
      [] OTHER -> "Err"

\* SensorStatus::try_from(u8): the variant, or "Err".
SensorStatus_try_from(src) ==
    CASE src = 0 -> "Unreliable"
      [] src = 1 -> "Low"
      [] src = 2 -> "Medium"
      [] src = 3 -> "High"
      [] OTHER -> "Err"

\* A MetaEvent value; the variant "Invalid" stands for Option::None.
Meta(variant, args) == [args |-> args, variant |-> variant]

NoMeta == Meta("-", <<>>)

\* Mutant: the second byte is taken as a sensor without being looked up.
MetaEvent_from_bytes_SensorUnchecked(bytes) ==
    LET code == bytes[1]
        sensor == bytes[2]
        le == FromLeBytes(SubSeq(bytes, 2, 3))
    IN  CASE code = 1 -> Meta("FlushComplete", << sensor >>)
          [] code = 2 -> Meta("SampleRateChanged", << sensor >>)
          [] code = 3 -> Meta("PowerModeChanged", << sensor, bytes[3] >>)
          [] code = 4 -> Meta("Error", << bytes[2], bytes[3] >>)
          [] code \in 5..10 -> Meta("Reserved", <<>>)
          [] code = 11 -> Meta("SensorError", << sensor, bytes[3] >>)
          [] code = 12 -> Meta("FifoOverflow", << le >>)
          [] code = 13 -> Meta("DynamicRangeChanged", << sensor >>)
          [] code = 14 -> Meta("FifoWatermark", << le >>)
          [] code = 15 -> Meta("SelfTestResult", << sensor, bytes[3] >>)
          [] code = 16 -> Meta("Initialized", << le >>)
          [] OTHER -> Meta("Invalid", <<>>)

\* Mutant: the 16-bit values are taken high byte first.
MetaEvent_from_bytes_BigEndian(bytes) ==
    LET code == bytes[1]
        sensor == bytes[2]
        be == FromLeBytes(<< bytes[3], bytes[2] >>)
        WithSensor(variant, args) ==
            IF sensor \in SensorIds THEN Meta(variant, args) ELSE Meta("Invalid", <<>>)
    IN  CASE code = 1 -> WithSensor("FlushComplete", << sensor >>)
          [] code = 2 -> WithSensor("SampleRateChanged", << sensor >>)
          [] code = 3 -> WithSensor("PowerModeChanged", << sensor, bytes[3] >>)
          [] code = 4 -> Meta("Error", << bytes[2], bytes[3] >>)
          [] code \in 5..10 -> Meta("Reserved", <<>>)
          [] code = 11 -> WithSensor("SensorError", << sensor, bytes[3] >>)
          [] code = 12 -> Meta("FifoOverflow", << be >>)
          [] code = 13 -> WithSensor("DynamicRangeChanged", << sensor >>)
          [] code = 14 -> Meta("FifoWatermark", << be >>)
          [] code = 15 -> WithSensor("SelfTestResult", << sensor, bytes[3] >>)
          [] code = 16 -> Meta("Initialized", << be >>)
          [] OTHER -> Meta("Invalid", <<>>)

\* Mutant: the reserved range ends at 9.
MetaEvent_from_bytes_ReservedTo9(bytes) ==
    LET code == bytes[1]
        sensor == bytes[2]
        le == FromLeBytes(SubSeq(bytes, 2, 3))
        WithSensor(variant, args) ==
            IF sensor \in SensorIds THEN Meta(variant, args) ELSE Meta("Invalid", <<>>)
    IN  CASE code = 1 -> WithSensor("FlushComplete", << sensor >>)
          [] code = 2 -> WithSensor("SampleRateChanged", << sensor >>)
          [] code = 3 -> WithSensor("PowerModeChanged", << sensor, bytes[3] >>)
          [] code = 4 -> Meta("Error", << bytes[2], bytes[3] >>)
          [] code \in 5..9 -> Meta("Reserved", <<>>)
          [] code = 11 -> WithSensor("SensorError", << sensor, bytes[3] >>)
          [] code = 12 -> Meta("FifoOverflow", << le >>)
          [] code = 13 -> WithSensor("DynamicRangeChanged", << sensor >>)
          [] code = 14 -> Meta("FifoWatermark", << le >>)
          [] code = 15 -> WithSensor("SelfTestResult", << sensor, bytes[3] >>)
          [] code = 16 -> Meta("Initialized", << le >>)
          [] OTHER -> Meta("Invalid", <<>>)

\* MetaEvent::from_bytes(bytes: [u8; 3])
MetaEvent_from_bytes(bytes) ==
    LET code == bytes[1]
        sensor == bytes[2]
        le == FromLeBytes(SubSeq(bytes, 2, 3))
        WithSensor(variant, args) ==
            IF sensor \in SensorIds THEN Meta(variant, args) ELSE Meta("Invalid", <<>>)
    IN  CASE code = 1 -> WithSensor("FlushComplete", << sensor >>)
          [] code = 2 -> WithSensor("SampleRateChanged", << sensor >>)
          [] code = 3 -> WithSensor("PowerModeChanged", << sensor, bytes[3] >>)
          [] code = 4 -> Meta("Error", << bytes[2], bytes[3] >>)
          [] code \in 5..10 -> Meta("Reserved", <<>>)
          [] code = 11 -> WithSensor("SensorError", << sensor, bytes[3] >>)
          [] code = 12 -> Meta("FifoOverflow", << le >>)
          [] code = 13 -> WithSensor("DynamicRangeChanged", << sensor >>)
          [] code = 14 -> Meta("FifoWatermark", << le >>)
          [] code = 15 -> WithSensor("SelfTestResult", << sensor, bytes[3] >>)
          [] code = 16 -> Meta("Initialized", << le >>)
          [] OTHER -> Meta("Invalid", <<>>)

\* A SensorData value: its variant, its numbers in field order, the
\* SensorStatus and the MetaEvent where the variant has one.
SensorData(shape, ints, status, meta) ==
    [ints |-> ints, meta |-> meta, shape |-> shape, status |-> status]

\* Mutant: the pressure is read as two bytes.
PayloadReads_PressureTwo(id) ==
    CASE id \in QuaternionIds -> << 2, 2, 2, 2, 2 >>
      [] id \in VectorStatusIds -> << 2, 2, 2, 1 >>
      [] id \in I16ScalarIds -> << 2 >>
      [] id \in U16ScalarIds -> << 2 >>
      [] id \in PressureIds -> << 2 >>
      [] id \in EventIds -> << 1 >>
      [] id \in VectorBiasIds -> << 2, 2, 2, 2, 2, 2, 1 >>
      [] id \in HeartRateIds -> << 1 >>
      [] id \in DebugIds -> << 13 >>
      [] id \in RawIds -> << 4, 4, 4, 4 >>
      [] id \in MetaEventIds -> << 3 >>
      [] OTHER -> << >>

\* Mutant: the wakeup variant of the light sensor carries three bytes.
PayloadReads_WakeupLightThree(id) ==
    CASE id \in QuaternionIds -> << 2, 2, 2, 2, 2 >>
      [] id \in VectorStatusIds -> << 2, 2, 2, 1 >>
      [] id = 37 -> << 3 >>
      [] id \in I16ScalarIds \ {37} -> << 2 >>
      [] id \in U16ScalarIds -> << 2 >>
      [] id \in PressureIds -> << 3 >>
      [] id \in EventIds -> << 1 >>
      [] id \in VectorBiasIds -> << 2, 2, 2, 2, 2, 2, 1 >>
      [] id \in HeartRateIds -> << 1 >>
      [] id \in DebugIds -> << 13 >>
      [] id \in RawIds -> << 4, 4, 4, 4 >>
      [] id \in MetaEventIds -> << 3 >>
      [] OTHER -> << >>

\* The reads each arm issues on the byte source after the id byte, as the
\* widths of its read_exact calls in order.
PayloadReads(id) ==
    CASE id \in QuaternionIds -> << 2, 2, 2, 2, 2 >>
      [] id \in VectorStatusIds -> << 2, 2, 2, 1 >>
      [] id \in I16ScalarIds -> << 2 >>
      [] id \in U16ScalarIds -> << 2 >>
      [] id \in PressureIds -> << 3 >>
      [] id \in EventIds -> << 1 >>
      [] id \in VectorBiasIds -> << 2, 2, 2, 2, 2, 2, 1 >>
      [] id \in HeartRateIds -> << 1 >>
      [] id \in DebugIds -> << 13 >>
      [] id \in RawIds -> << 4, 4, 4, 4 >>
      [] id \in MetaEventIds -> << 3 >>
      [] OTHER -> << >>

\* Successive read_exact calls of the given widths on a source holding
\* `data`, `pos` bytes of it consumed.  A read the source cannot serve
\* fails; how much a failed read_exact consumes is left open by its
\* contract: nothing, or all that was left (eofEnd).
RECURSIVE ReadExact(_, _, _, _)
ReadExact(data, pos, widths, eofEnd) ==
    IF widths = <<>> THEN [bytes |-> <<>>, ok |-> TRUE, pos |-> pos]
    ELSE IF pos + Head(widths) > Len(data)
         THEN [bytes |-> <<>>, ok |-> FALSE,
               pos |-> IF eofEnd THEN Len(data) ELSE pos]
         ELSE LET rest == ReadExact(data, pos + Head(widths), Tail(widths), eofEnd)
              IN  [bytes |-> SubSeq(data, pos + 1, pos + Head(widths)) \o rest.bytes,
                   ok |-> rest.ok, pos |-> rest.pos]

\* SensorData::read_vector_status, the bytes read
read_vector_status(b) ==
    SensorData("VectorStatus",
               << I16(b[1], b[2]), I16(b[3], b[4]), I16(b[5], b[6]) >>,
               SensorStatus_try_from(b[7]), NoMeta)

read_vector_bias_status(b) ==
    SensorData("VectorBiasStatus",
               << I16(b[1], b[2]), I16(b[3], b[4]), I16(b[5], b[6]),
                  I16(b[7], b[8]), I16(b[9], b[10]), I16(b[11], b[12]) >>,
               SensorStatus_try_from(b[13]), NoMeta)

\* Mutant: the accuracy is taken from the bytes of w.
read_quaternion_accuracy_AccuracyIsW(b) ==
    SensorData("QuaternionAccuracy",
               << I16(b[1], b[2]), I16(b[3], b[4]), I16(b[5], b[6]),
                  I16(b[7], b[8]), I16(b[7], b[8]) >>, "-", NoMeta)

read_quaternion_accuracy(b) ==
    SensorData("QuaternionAccuracy",
               << I16(b[1], b[2]), I16(b[3], b[4]), I16(b[5], b[6]),
                  I16(b[7], b[8]), I16(b[9], b[10]) >>, "-", NoMeta)

read_vector_timestamp(b) ==
    SensorData("VectorTimestamp",
               << I32(SubSeq(b, 1, 4)), I32(SubSeq(b, 5, 8)), I32(SubSeq(b, 9, 12)) >>
               \o U32Halves(SubSeq(b, 13, 16)), "-", NoMeta)

read_metaevent(b) == SensorData("MetaEvent", <<>>, "-", MetaEvent_from_bytes(b))

\* The value of the match in Event::read for payload bytes b.
DecodePayload(id, b) ==
    CASE id = 0 -> SensorData("None", <<>>, "-", NoMeta)
      [] id \in QuaternionIds -> read_quaternion_accuracy(b)
      [] id \in VectorStatusIds -> read_vector_status(b)
      [] id \in I16ScalarIds ->
            SensorData("Scalar", << AsI32(I16(b[1], b[2])) >>, "-", NoMeta)
      [] id \in U16ScalarIds ->
            SensorData("Scalar", << AsI32(FromLeBytes(b)) >>, "-", NoMeta)
      [] id \in PressureIds ->
            SensorData("Scalar", << AsI32(FromLeBytes(b)) >>, "-", NoMeta)
      [] id \in EventIds -> SensorData("Event", << b[1] >>, "-", NoMeta)
      [] id \in VectorBiasIds -> read_vector_bias_status(b)
      [] id \in HeartRateIds -> SensorData("Scalar", << AsI32(b[1]) >>, "-", NoMeta)
      [] id \in DebugIds -> SensorData("Debug", b, "-", NoMeta)
      [] id \in RawIds -> read_vector_timestamp(b)
      [] id \in MetaEventIds -> read_metaevent(b)

\* Mutant: an id byte without a SensorId is taken for the None id.
Event_read_UnmappedAsNone(data, pos, eofEnd) ==
    LET first == ReadExact(data, pos, << 1 >>, eofEnd)
    IN  IF ~first.ok THEN [pos |-> first.pos, res |-> Err("UnexpectedEof")]
        ELSE LET id == first.bytes[1]
                 p == ReadExact(data, first.pos, PayloadReads(id), eofEnd)
                 value == DecodePayload(id, p.bytes)
             IN  IF id \notin SensorIds
                 THEN [pos |-> first.pos,
                       res |-> Ok([data |-> SensorData("None", <<>>, "-", NoMeta),
                                   id |-> id])]
                 ELSE IF ~p.ok THEN [pos |-> p.pos, res |-> Err("UnexpectedEof")]
                 ELSE IF value.status = "Err" THEN [pos |-> p.pos, res |-> Panic]
                 ELSE IF value.meta.variant = "Invalid"
                      THEN [pos |-> p.pos, res |-> Err("Other")]
                 ELSE [pos |-> p.pos, res |-> Ok([data |-> value, id |-> id])]

\* Event::read(reader): what it returns and the position it leaves the
\* source at.  An unmapped id and an invalid meta event are errors of kind
\* Other, an exhausted source is UnexpectedEof, and the unwrap() of an
\* invalid SensorStatus panics.
Event_read(data, pos, eofEnd) ==
    LET first == ReadExact(data, pos, << 1 >>, eofEnd)
    IN  IF ~first.ok THEN [pos |-> first.pos, res |-> Err("UnexpectedEof")]
        ELSE LET id == first.bytes[1]
                 p == ReadExact(data, first.pos, PayloadReads(id), eofEnd)
                 value == DecodePayload(id, p.bytes)
             IN  IF id \notin SensorIds THEN [pos |-> first.pos, res |-> Err("Other")]
                 ELSE IF ~p.ok THEN [pos |-> p.pos, res |-> Err("UnexpectedEof")]
                 ELSE IF value.status = "Err" THEN [pos |-> p.pos, res |-> Panic]
                 ELSE IF value.meta.variant = "Invalid"
                      THEN [pos |-> p.pos, res |-> Err("Other")]
                 ELSE [pos |-> p.pos, res |-> Ok([data |-> value, id |-> id])]

\* Option::Some and Option::None as EventReader::next returns them.
Some(x) == [tag |-> "Some", val |-> x]

OptionNone == [tag |-> "OptionNone", val |-> <<>>]

\* Mutant: the test of is_none() is missing.
EventReader_next_NoneYielded(res) ==
    IF res.tag = "Panic" THEN Panic
    ELSE IF res.tag = "Ok" THEN Some(res.val)
    ELSE OptionNone

\* EventReader::next, from the result of its Event::read.
EventReader_next(res) ==
    IF res.tag = "Panic" THEN Panic
    ELSE IF res.tag = "Ok" /\ res.val.id # 0 THEN Some(res.val)
    ELSE OptionNone

\* Payloads of the records tried, cut to the width of each sensor id: the
\* vector of the crate's test with status Medium, zeros with status
\* Unreliable, extreme values with status High and Low, and statuses 4 and 255.
PayloadSamples ==
    { << 254, 255, 5, 0, 105, 8, 2, 16, 0, 32, 0, 255, 3, 1, 128, 0 >>,
      << 0, 0, 0, 0, 0, 0, 0, 0, 0, 0, 0, 0, 0, 0, 0, 0 >>,
      << 0, 128, 255, 127, 255, 255, 3, 1, 0, 0, 128, 7, 1, 255, 255, 255 >>,
      << 1, 0, 2, 0, 3, 0, 4, 9, 9, 9, 9, 9, 255, 0, 0, 128 >> }

\* Payloads of the meta event records tried.
MetaSamples ==
    { << code, sensor, 2 >> : code \in 0..17, sensor \in {1, 26} }

\* The payload width of a record, from the reads of its arm.
RECURSIVE Sum(_)
Sum(widths) == IF widths = <<>> THEN 0 ELSE Head(widths) + Sum(Tail(widths))

\* The first record of a stream: any id byte with a payload, or nothing.
FirstRecords ==
    { << id >> \o SubSeq(p, 1, Sum(PayloadReads(id))) :
        id \in 0..255, p \in PayloadSamples }
    \cup { << id >> \o m : id \in MetaEventIds, m \in MetaSamples }
    \cup { << >> }

\* What follows it: nothing, a None id, the record of the crate's test, an
\* unmapped id, a light record cut short, a rotation vector id with 8 bytes,
\* the record of the test with an unmapped id after it, a pressure record
\* cut short whose payload bytes read as a record of their own.
NextRecords ==
    { << >>, << 0 >>, << 1, 254, 255, 5, 0, 105, 8, 2 >>, << 26 >>, << 5, 1 >>,
      << 11, 1, 0, 2, 0, 3, 0, 4, 0 >>, << 1, 254, 255, 5, 0, 105, 8, 2, 26 >>,
      << 6, 17, 3 >> }

\* The byte streams handed to the decoder.
Streams == { a \o b : a \in FirstRecords, b \in NextRecords }

\* Event::read(&mut reader)
EventRead ==
    /\ reader.call # "none" /\ reader.out # Panic
    /\ \E eofEnd \in BOOLEAN :
          LET r == Event_read(reader.data, reader.pos, eofEnd)
          IN  reader' = [reader EXCEPT !.call = "Event::read", !.from = reader.pos,
                                       !.out = r.res, !.pos = r.pos]
    /\ UNCHANGED <<busVars, fw>>

\* What the caller of next() has seen once it has returned `out`: the
\* events so far, and whether the end of the sequence was reported.
Seen(out) ==
    [ended |-> reader.ended \/ out = OptionNone,
     yielded |-> IF out.tag = "Some" THEN Append(reader.yielded, out.val)
                 ELSE reader.yielded]

\* Mutant: the source is read through a buffer that takes one byte more than
\* the record when one is left.
EventReaderNext_ReadAhead ==
    /\ reader.call # "none" /\ reader.out # Panic
    /\ \E eofEnd \in BOOLEAN :
          LET r == Event_read(reader.data, reader.pos, eofEnd)
              out == EventReader_next(r.res)
              ahead == IF r.pos < Len(reader.data) THEN r.pos + 1 ELSE r.pos
          IN  reader' = [reader EXCEPT !.call = "EventReader::next",
                                       !.ended = Seen(out).ended,
                                       !.from = reader.pos,
                                       !.out = out, !.pos = ahead,
                                       !.yielded = Seen(out).yielded]
    /\ UNCHANGED <<busVars, fw>>

\* Mutant: a pull that fails takes back the events yielded before it.
EventReaderNext_DropsYielded ==
    /\ reader.call # "none" /\ reader.out # Panic
    /\ \E eofEnd \in BOOLEAN :
          LET r == Event_read(reader.data, reader.pos, eofEnd)
              out == EventReader_next(r.res)
          IN  reader' = [reader EXCEPT !.call = "EventReader::next",
                                       !.ended = Seen(out).ended,
                                       !.from = reader.pos,
                                       !.out = out, !.pos = r.pos,
                                       !.yielded = IF r.res.tag = "Err" THEN <<>>
                                                   ELSE Seen(out).yielded]
    /\ UNCHANGED <<busVars, fw>>

\* Mutant: the iterator is fused; once it has returned None it reads no more.
EventReaderNext_Fused ==
    /\ reader.call # "none" /\ reader.out # Panic
    /\ \E eofEnd \in BOOLEAN :
          LET r == IF reader.ended
                   THEN [pos |-> reader.pos, res |-> Err("UnexpectedEof")]
                   ELSE Event_read(reader.data, reader.pos, eofEnd)
              out == EventReader_next(r.res)
          IN  reader' = [reader EXCEPT !.call = "EventReader::next",
                                       !.ended = Seen(out).ended,
                                       !.from = reader.pos,
                                       !.out = out, !.pos = r.pos,
                                       !.yielded = Seen(out).yielded]
    /\ UNCHANGED <<busVars, fw>>

\* EventReader(&mut reader).next()
EventReaderNext ==
    /\ reader.call # "none" /\ reader.out # Panic
    /\ \E eofEnd \in BOOLEAN :
          LET r == Event_read(reader.data, reader.pos, eofEnd)
              out == EventReader_next(r.res)
          IN  reader' = [reader EXCEPT !.call = "EventReader::next",
                                       !.ended = Seen(out).ended,
                                       !.from = reader.pos,
                                       !.out = out, !.pos = r.pos,
                                       !.yielded = Seen(out).yielded]
    /\ UNCHANGED <<busVars, fw>>

DecoderInit ==
    /\ pc = [h \in Handles |-> "idle"]
    /\ op = [h \in Handles |-> NoCall]
    /\ trace = [h \in Handles |-> <<>>]
    /\ result = [h \in Handles |-> None]
    /\ interleaved = [h \in Handles |-> FALSE]
    /\ dev = InitDev(0)
    /\ fw = NoFirmware
    /\ \E s \in Streams : reader = [NoReader EXCEPT !.call = "new", !.data = s]

DecoderNext == EventRead \/ EventReaderNext

DecoderSpec == DecoderInit /\ [][DecoderNext]_vars

\* A caller that only iterates: for event in EventReader::new(reader).
SequenceSpec == DecoderInit /\ [][EventReaderNext]_vars

----------------------------------------------------------------------------
(* The conversions of packet.rs as functions of their argument.  The        *)
(* argument is kept in reader.data and the value returned in reader.out.    *)

\* A trailing byte of a meta event: zero, small values, an unmapped sensor
\* code and the largest byte.
TrailSamples == {0, 1, 5, 26, 255}

\* SensorStatus::try_from(src)
StatusTryFrom ==
    /\ reader.call = "new" /\ Len(reader.data) = 1
    /\ LET s == SensorStatus_try_from(reader.data[1])
       IN  reader' = [reader EXCEPT !.call = "SensorStatus::try_from",
                                    !.out = IF s = "Err" THEN Err("unit") ELSE Ok(s)]
    /\ UNCHANGED <<busVars, fw>>

\* MetaEvent::from_bytes(bytes)
MetaFromBytes ==
    /\ reader.call = "new" /\ Len(reader.data) = 3
    /\ LET m == MetaEvent_from_bytes(reader.data)
       IN  reader' = [reader EXCEPT !.call = "MetaEvent::from_bytes",
                                    !.out = IF m.variant = "Invalid" THEN OptionNone
                                            ELSE Some(m)]
    /\ UNCHANGED <<busVars, fw>>

\* Event::read on a source that holds a meta event record: the id of
\* MetaEvent or MetaEventWakeup and the three bytes of the argument.
MetaEventRead ==
    /\ reader.call = "new" /\ Len(reader.data) = 3
    /\ \E id \in MetaEventIds, eofEnd \in BOOLEAN :
          LET r == Event_read(<< id >> \o reader.data, 0, eofEnd)
          IN  reader' = [reader EXCEPT !.call = "Event::read",
                                       !.data = << id >> \o reader.data,
                                       !.out = r.res, !.pos = r.pos]
    /\ UNCHANGED <<busVars, fw>>

\* The argument of a conversion, before the call.
Argument(a) == [NoReader EXCEPT !.call = "new", !.data = a]

\* The arguments tried: every byte for SensorStatus::try_from; for
\* MetaEvent::from_bytes every first byte with the trailing samples, the
\* array [12, 5, 0] among them, and for the first bytes 1..16 every value of
\* each trailing byte with the other one 0 or 255.
CodecInit ==
    /\ pc = [h \in Handles |-> "idle"]
    /\ op = [h \in Handles |-> NoCall]
    /\ trace = [h \in Handles |-> <<>>]
    /\ result = [h \in Handles |-> None]
    /\ interleaved = [h \in Handles |-> FALSE]
    /\ dev = InitDev(0)
    /\ fw = NoFirmware
    /\ \/ \E b \in 0..255 : reader = Argument(<< b >>)
       \/ \E c \in 0..255, s \in TrailSamples, v \in TrailSamples :
             reader = Argument(<< c, s, v >>)
       \/ \E c \in 1..16, s \in 0..255, v \in {0, 255} :
             reader = Argument(<< c, s, v >>)
       \/ \E c \in 1..16, s \in {0, 255}, v \in 0..255 :
             reader = Argument(<< c, s, v >>)

CodecNext == StatusTryFrom \/ MetaFromBytes \/ MetaEventRead

CodecSpec == CodecInit /\ [][CodecNext]_vars

----------------------------------------------------------------------------
(* update_reg on one handle while a second owner of the bus writes the      *)
(* same register.                                                           *)

BeginUpdate(h) == BeginCall(h, UpdateRegCalls)

BeginWriter(h) == BeginCall(h, WriterCalls)

UpdateRaceNext ==
    \/ BeginUpdate(1)
    \/ UpdateRegRead(1)
    \/ UpdateRegWrite(1)
    \/ BeginWriter(2)
    \/ WriteReg(2)

UpdateRaceSpec == Init /\ [][UpdateRaceNext]_vars

----------------------------------------------------------------------------
(* Properties of the parameter exchange protocol.                           *)

\* The acknowledge byte that completes the request of call c.
ExpectedAck(c) == IF c.kind = "read_param" THEN c.param ELSE c.param + 128

IsWrite(e, addr) == e.rw = "w" /\ e.addr = addr

IsRead(e, addr) == e.rw = "r" /\ e.addr = addr

\* e is a successful acknowledge read that returned byte b.
AckRead(e, b) == IsRead(e, PARAM_ACK_ADDR) /\ e.ok /\ e.data = << b >>

\* e is a successful acknowledge read of a RequestId other than the one
\* call c waits for.
OtherIdRead(e, c) ==
    /\ IsRead(e, PARAM_ACK_ADDR) /\ e.ok
    /\ e.data[1] # 128 /\ e.data[1] # ExpectedAck(c)

AllOk(t) == \A i \in 1..Len(t) : t[i].ok

ReadParamOrder(t, p, w) ==
    /\ Len(t) >= 4
    /\ AllOk(t)
    /\ IsWrite(t[1], PARAM_PAGE_SELECT_ADDR) /\ t[1].len = 1
    /\ IsWrite(t[2], PARAM_REQUEST_ADDR) /\ t[2].data = << p >>
    /\ \A i \in 3..(Len(t) - 1) : IsRead(t[i], PARAM_ACK_ADDR) /\ t[i].len = 1
    /\ IsRead(t[Len(t)], PARAM_READ_ADDR)
    /\ t[Len(t)].len = w /\ Len(t[Len(t)].data) = w

\* C1: a read_param call that returned success has issued, in this order and
\* nothing else: one write of the page-select register, one write of the
\* request register holding the index with the direction bit clear, one or
\* more reads of the acknowledge register, and one read of exactly `width`
\* bytes at the parameter read-data address.
C1_ReadParamOrder ==
    \A h \in Handles :
        (op[h].kind = "read_param" /\ result[h].tag = "Ok")
            => ReadParamOrder(trace[h], op[h].param, op[h].size)

C1_Witness ==
    /\ op[1].kind = "read_param" /\ result[1].tag = "Ok"
    /\ op[1].size = 16 /\ Len(trace[1]) >= 5

\* C2: in a read_param call the data register is read only right after an
\* acknowledge read that returned RequestId(index); an acknowledge read that
\* returned another RequestId is followed by another acknowledge read (or the
\* call is still in its poll loop).
C2_DataOnlyAfterMatch ==
    \A h \in Handles :
        op[h].kind = "read_param" =>
            \A i \in 1..Len(trace[h]) :
                /\ IsRead(trace[h][i], PARAM_READ_ADDR) =>
                      (i > 1 /\ op[h].param # 128
                             /\ AckRead(trace[h][i - 1], op[h].param))
                /\ OtherIdRead(trace[h][i], op[h]) =>
                      IF i = Len(trace[h]) THEN pc[h] = "rp_poll"
                      ELSE IsRead(trace[h][i + 1], PARAM_ACK_ADDR)

C2_Witness ==
    /\ op[1].kind = "read_param" /\ Len(trace[1]) >= 5
    /\ OtherIdRead(trace[1][3], op[1])
    /\ IsRead(trace[1][Len(trace[1])], PARAM_READ_ADDR)

\* The last bus transaction of the current call of h read Error (0x80) from
\* the acknowledge register.
ErrorAckRead(h) ==
    /\ op[h].kind \in {"read_param", "write_param"}
    /\ trace[h] # <<>>
    /\ AckRead(trace[h][Len(trace[h])], 128)

\* C3: once an acknowledge read of read_param or write_param has returned
\* Error (0x80), the call has returned a failure value to its caller (it has
\* not aborted the program and is not left in its loop).
C3_ErrorAckIsFailure ==
    \A h \in Handles :
        ErrorAckRead(h) => (pc[h] = "done" /\ result[h].tag = "Err")

WriteParamOrder(t, c) ==
    /\ Len(t) >= 5
    /\ AllOk(t)
    /\ IsWrite(t[1], PARAM_WRITE_ADDR) /\ t[1].len = c.size
    /\ IsWrite(t[2], PARAM_PAGE_SELECT_ADDR) /\ t[2].len = 1
    /\ IsWrite(t[3], PARAM_REQUEST_ADDR) /\ t[3].data = << c.param + 128 >>
    /\ \A i \in 4..(Len(t) - 1) : IsRead(t[i], PARAM_ACK_ADDR) /\ t[i].len = 1
    /\ IsWrite(t[Len(t)], PARAM_REQUEST_ADDR) /\ t[Len(t)].data = << 0 >>

\* C4: a write_param call that returned success has issued, in this order:
\* one write of the parameter's bytes to the write-data address, one write
\* of the page-select register, one write of the request register holding
\* the index with the direction bit set, one or more acknowledge reads, and
\* one closing write of byte 0x00 to the request register; and in any
\* write_param call a second write of the request register comes right after
\* an acknowledge read that returned the encoded request.
C4_WriteParamOrder ==
    \A h \in Handles :
        op[h].kind = "write_param" =>
            /\ result[h].tag = "Ok" => WriteParamOrder(trace[h], op[h])
            /\ \A i \in 4..Len(trace[h]) :
                  IsWrite(trace[h][i], PARAM_REQUEST_ADDR) =>
                      AckRead(trace[h][i - 1], op[h].param + 128)

C4_Witness ==
    /\ op[1].kind = "write_param" /\ result[1].tag = "Ok"
    /\ op[1].size = 8 /\ Len(trace[1]) >= 6

\* C5: in a write_param call, the poll loop is left for the closing write
\* only after an acknowledge read that returned index + 128, the encoded
\* request; an acknowledge read that returned any other byte except 0x80,
\* the bare index included, is followed by another poll.
C5_WriteLeavesOnExactEcho ==
    \A h \in Handles :
        op[h].kind = "write_param" =>
            /\ pc[h] = "wp_close" =>
                  AckRead(trace[h][Len(trace[h])], op[h].param + 128)
            /\ \A i \in 1..Len(trace[h]) :
                  OtherIdRead(trace[h][i], op[h]) =>
                      IF i = Len(trace[h]) THEN pc[h] = "wp_poll"
                      ELSE IsRead(trace[h][i + 1], PARAM_ACK_ADDR)

\* A write_param of index 1 has read the bare index 1 and polled again.
C5_Witness ==
    /\ op[1].kind = "write_param" /\ op[1].param = 1
    /\ Len(trace[1]) >= 5
    /\ AckRead(trace[1][4], 1)
    /\ AckRead(trace[1][5], 129)
    /\ pc[1] = "wp_close"

\* C6: the byte written to the page-select register holds the parameter's
\* page in bits 0-3, and in bits 4-7 the value 0 when the width is 16
\* (read_param) or 8 (write_param) and the width itself otherwise.
C6_PageSelectSize ==
    \A h \in Handles :
        \A i \in 1..Len(trace[h]) :
            IsWrite(trace[h][i], PARAM_PAGE_SELECT_ADDR) =>
                LET byte == trace[h][i].data[1]
                    max == IF op[h].kind = "read_param" THEN 16 ELSE 8
                IN  /\ op[h].kind \in {"read_param", "write_param"}
                    /\ op[h].size \in 1..max
                    /\ byte % 16 = op[h].page
                    /\ byte \div 16 = (IF op[h].size = max THEN 0 ELSE op[h].size)

C6_Witness ==
    /\ op[1].kind = "write_param" /\ op[1].size = 8
    /\ Len(trace[1]) >= 2
    /\ trace[1][2].data = << op[1].page >>

----------------------------------------------------------------------------
(* Bus failures.                                                            *)

\* C7: in every call (read_reg, write_reg, update_reg, read_param,
\* write_param, upload_raw_firmware, read_fifo) a failed bus transaction is
\* the last transaction of the call, and the call has returned exactly the
\* error the bus reported: nothing is issued after it, it is not retried and
\* no write undoes the earlier ones.
C7_BusErrorReturned ==
    \A h \in Handles :
        \A i \in 1..Len(trace[h]) :
            ~trace[h][i].ok =>
                /\ i = Len(trace[h])
                /\ pc[h] = "done"
                /\ result[h].tag = "Err"
                /\ result[h].val = << trace[h][i].err >>

\* An upload has failed on its second chunk.
C7_Witness ==
    /\ op[1].kind = "upload_raw_firmware"
    /\ Len(trace[1]) = 4
    /\ ~trace[1][4].ok
    /\ result[1] = Err(902)

----------------------------------------------------------------------------
(* The poll loops.                                                          *)

\* The current call of h has just read, successfully, a RequestId that is
\* not the one it waits for.
JustReadOtherId(h) ==
    /\ trace[h] # <<>>
    /\ OtherIdRead(trace[h][Len(trace[h])], op[h])

\* The last transaction of h: a failed read, or a read of Error or of the
\* awaited value.
LoopExit(h) ==
    /\ trace[h] # <<>>
    /\ LET e == trace[h][Len(trace[h])]
       IN  /\ IsRead(e, PARAM_ACK_ADDR)
           /\ (~e.ok \/ e.data = << 128 >> \/ e.data = << ExpectedAck(op[h]) >>)

\* C8: a step of a poll loop whose acknowledge read succeeded and returned a
\* non-matching RequestId leaves the call in the loop, not returned; the loop
\* is left only by a step that read the awaited value or Error (or whose bus
\* read failed).
C8_KeepsPolling ==
    [][\A h \in Handles :
          pc[h] \in {"rp_poll", "wp_poll"} =>
              /\ (Len(trace'[h]) = Len(trace[h]) + 1 /\ JustReadOtherId(h)')
                    => (pc'[h] = pc[h] /\ result'[h] = None)
              /\ pc'[h] # pc[h] => LoopExit(h)']_vars

\* A read_param call has polled MaxPolls times in vain and is still polling.
C8_Witness ==
    /\ pc[1] = "rp_poll" /\ result[1] = None
    /\ Len(trace[1]) >= 4
    /\ OtherIdRead(trace[1][3], op[1])
    /\ OtherIdRead(trace[1][4], op[1])

\* The device presents the acknowledge value that completes the request the
\* call has written.
AckPresented ==
    /\ \E i \in 1..Len(trace[1]) :
          /\ IsWrite(trace[1][i], PARAM_REQUEST_ADDR)
          /\ trace[1][i].data = << ExpectedAck(op[1]) >>
    /\ dev.ack = ExpectedAck(op[1])

NoBusFailure == AllOk(trace[1])

NoErrorAckRead == \A i \in 1..Len(trace[1]) : ~AckRead(trace[1][i], 128)

Succeeded == result[1].tag = "Ok"

\* C9 as stated: if no bus transaction fails and the device, after the
\* request write, eventually presents the matching acknowledge value for
\* good, the exchange eventually returns success.
C9_Original == (([]NoBusFailure) /\ <>[]AckPresented) => <>Succeeded

\* C9, amended: the same, for an exchange none of whose acknowledge reads
\* returns Error (0x80).
C9_Terminates ==
    (([]NoBusFailure) /\ ([]NoErrorAckRead) /\ <>[]AckPresented) => <>Succeeded

\* A write_param returned success after polling once in vain.
C9_Witness ==
    /\ op[1].kind = "write_param" /\ Succeeded
    /\ Len(trace[1]) = 6
    /\ OtherIdRead(trace[1][4], op[1])

\* C35: write_param writes the request byte index + 128.  For an index in
\* 1..127 that byte is not 0x80, and an acknowledge read that returns it
\* ends the polling and leads to the closing write; for index 0 the byte is
\* 0x80, an acknowledge read that returns it is taken for Error and ends the
\* call without a result, and the call never returns success.
C35_EchoOfIndexZero ==
    \A h \in Handles :
        op[h].kind = "write_param" =>
            LET t == trace[h]
                echo == op[h].param + 128
            IN  /\ Len(t) >= 3 => (IsWrite(t[3], PARAM_REQUEST_ADDR)
                                   /\ t[3].data = << echo >>)
                /\ op[h].param \in 1..127 =>
                      /\ echo # 128
                      /\ \A i \in 1..Len(t) :
                            AckRead(t[i], echo) =>
                                IF i = Len(t) THEN pc[h] = "wp_close"
                                ELSE /\ i + 1 = Len(t)
                                     /\ IsWrite(t[i + 1], PARAM_REQUEST_ADDR)
                                     /\ t[i + 1].ok => result[h] = Ok(<<>>)
                /\ op[h].param = 0 =>
                      /\ echo = 128
                      /\ result[h].tag # "Ok"
                      /\ \A i \in 1..Len(t) :
                            AckRead(t[i], echo) =>
                                (i = Len(t) /\ pc[h] = "panicked")

\* A write_param of index 127 has returned success on the echo 0xFF.
C35_Witness ==
    /\ op[1].kind = "write_param" /\ op[1].param = 127
    /\ Len(trace[1]) = 5
    /\ AckRead(trace[1][4], 255)
    /\ result[1] = Ok(<<>>)

\* A write_param of index 0 has read its own request byte back.
C35_IndexZeroState ==
    /\ op[1].kind = "write_param" /\ op[1].param = 0
    /\ Len(trace[1]) = 4
    /\ trace[1][3].data = << 128 >> /\ AckRead(trace[1][4], 128)
    /\ pc[1] = "panicked"

----------------------------------------------------------------------------
(* read_fifo.                                                               *)

\* The number of bytes read_fifo may take: the smaller of the length of the
\* buffer and the value the bytes-remaining read returned, low byte first.
FifoTake(buflen, e) ==
    LET remaining == e.data[1] + 256 * e.data[2]
    IN  IF buflen < remaining THEN buflen ELSE remaining

\* C36: read_fifo first reads the 2 bytes of the bytes-remaining register
\* (0x38); it then issues at most one read at the FIFO address 0x00, handing
\* it exactly the first min(buf.len(), remaining) bytes of the buffer, so
\* that no byte of the buffer beyond them can change; it issues none when
\* that number is 0; the slice it returns has that length.
C36_FifoReadBounded ==
    \A h \in Handles :
        op[h].kind = "read_fifo" =>
            LET t == trace[h]
                n == op[h].size
            IN  /\ Len(t) <= 2
                /\ Len(t) >= 1 => (IsRead(t[1], 56) /\ t[1].len = 2)
                /\ (Len(t) >= 1 /\ t[1].ok) =>
                      LET end == FifoTake(n, t[1])
                      IN  /\ end = 0 =>
                                (Len(t) = 1 /\ pc[h] = "done" /\ result[h] = Ok(<<>>))
                          /\ Len(t) = 2 =>
                                /\ end > 0
                                /\ IsRead(t[2], 0) /\ t[2].len = end
                                /\ t[2].ok => result[h] = Ok(t[2].data)
                          /\ result[h].tag = "Ok" =>
                                /\ Len(result[h].val) = end
                                /\ Len(t) = (IF end = 0 THEN 1 ELSE 2)
                /\ result[h].tag = "Ok" => t[1].ok

\* A buffer of 3 bytes and 2 bytes remaining: one FIFO read of 2 bytes.
C36_Witness ==
    /\ op[1].kind = "read_fifo" /\ op[1].size = 3
    /\ Len(trace[1]) = 2
    /\ trace[1][1].data = << 2, 0 >>
    /\ trace[1][2].len = 2
    /\ result[1] = Ok(<< 11, 22 >>)

\* A buffer of 3 bytes and 300 bytes remaining: one FIFO read of 3 bytes.
C36_BufferFullState ==
    /\ op[1].kind = "read_fifo" /\ op[1].size = 3
    /\ Len(trace[1]) = 2
    /\ trace[1][1].data = << 44, 1 >>
    /\ trace[1][2].len = 3 /\ result[1].tag = "Ok"

\* Nothing remaining: the call returns the empty slice after one read.
C36_NothingRemainingState ==
    /\ op[1].kind = "read_fifo" /\ op[1].size = 3
    /\ Len(trace[1]) = 1
    /\ trace[1][1].data = << 0, 0 >>
    /\ result[1] = Ok(<<>>)

----------------------------------------------------------------------------
(* Interleaved exchanges.                                                   *)

OtherHandle(h) == CHOOSE g \in Handles : g # h

\* The bytes the device produces for the parameter of call c.
ProducedFor(c, len) ==
    DataBytes([idx |-> c.param, page |-> c.page], len)

\* The read_param of h returned the value the device produced for the
\* parameter of the other handle.
BadRead(h) ==
    /\ op[h].kind = "read_param" /\ result[h].tag = "Ok"
    /\ result[h].val = ProducedFor(RaceCall(OtherHandle(h)), op[h].size)

\* The read_param of h polls, the device holds no request of h any more, and
\* the acknowledge register holds another RequestId: every further poll of h
\* reads on.
Starved(h) ==
    /\ pc[h] = "rp_poll"
    /\ dev.ack \notin {ACK_ERROR, op[h].param}
    /\ dev.pending => dev.req # op[h].param

\* C10: with two handles exchanging different parameters on one device, an
\* exchange that returned the other parameter's value, or whose acknowledge
\* was overwritten while it polls, is one during which the other handle used
\* the bus; such states are reachable.
C10_BadOnlyWhenInterleaved ==
    \A h \in Handles : (BadRead(h) \/ Starved(h)) => interleaved[h]

C10_Witness == BadRead(1) /\ interleaved[1]

\* The other outcome C10 names, reachable as well: handle 2 polls for an
\* acknowledge that was overwritten.
C10_StarvedState == Starved(2) /\ interleaved[2]

----------------------------------------------------------------------------
(* The register transaction primitive.                                      *)

\* C11: update_reg is one read followed by at most one write of the same
\* register; the value written is f applied to the value that read returned,
\* whatever the register holds by then; and when the read fails the call
\* returns the error with no write issued.
C11_UpdateFromOwnRead ==
    \A h \in Handles :
        op[h].kind = "update_reg" =>
            LET t == trace[h]
            IN  /\ Len(t) <= 2
                /\ Len(t) >= 1 => (IsRead(t[1], op[h].addr) /\ t[1].len = op[h].size)
                /\ (Len(t) >= 1 /\ ~t[1].ok) =>
                      (Len(t) = 1 /\ pc[h] = "done" /\ result[h].tag = "Err")
                /\ Len(t) = 2 =>
                      /\ t[1].ok
                      /\ IsWrite(t[2], op[h].addr)
                      /\ t[2].data = << UpdateFn(op[h].arg, t[1].data[1]) >>

\* A lost update: the writer's value reached the register after the read of
\* update_reg, and the write of update_reg replaced it with a value computed
\* from the stale read.
C11_Witness ==
    /\ op[1].kind = "update_reg" /\ result[1].tag = "Ok" /\ interleaved[1]
    /\ op[2].kind = "write_reg" /\ op[2].addr = op[1].addr
    /\ trace[2] # <<>> /\ trace[2][1].ok
    /\ trace[1][1].data # << op[2].arg >>
    /\ dev.reg[op[1].addr] = UpdateFn(op[1].arg, trace[1][1].data[1])
    /\ dev.reg[op[1].addr] # UpdateFn(op[1].arg, op[2].arg)

\* C12: read_reg issues one bus read of T::SIZE bytes at T::ADDR and
\* write_reg one bus write of T::SIZE bytes at T::ADDR, and neither issues
\* anything else: the call has returned after that one transaction.
C12_OneTransaction ==
    \A h \in Handles :
        LET t == trace[h]
        IN  /\ op[h].kind \in {"read_reg", "write_reg"} =>
                  /\ Len(t) <= 1
                  /\ Len(t) = 1 <=> pc[h] = "done"
            /\ (op[h].kind = "read_reg" /\ Len(t) = 1) =>
                  /\ IsRead(t[1], op[h].addr) /\ t[1].len = op[h].size
                  /\ t[1].ok => (Len(t[1].data) = op[h].size
                                  /\ result[h] = Ok(t[1].data))
            /\ (op[h].kind = "write_reg" /\ Len(t) = 1) =>
                  /\ IsWrite(t[1], op[h].addr) /\ t[1].len = op[h].size
                  /\ Len(t[1].data) = op[h].size

\* read_reg::<RomVersion> has returned its two bytes.
C12_Witness ==
    /\ op[1].kind = "read_reg" /\ op[1].addr = ROM_VERSION_ADDR
    /\ result[1].tag = "Ok" /\ Len(result[1].val) = 2

\* write_reg::<UploadAddress> has written its two bytes.
C12_WriteState ==
    /\ op[1].kind = "write_reg" /\ op[1].size = 2
    /\ result[1].tag = "Ok" /\ trace[1][1].data = << 1, 2 >>

----------------------------------------------------------------------------
(* The firmware upload.                                                     *)

\* The value of four bytes read as a little-endian u32.
LeValue4(d) == d[1] + 256 * d[2] + 65536 * d[3] + 16777216 * d[4]

\* C13: the transactions of an upload_raw_firmware call are, in this order:
\* a write of byte 0x02 (run-request clear, upload-enable set) to chip-control
\* (0x34), a write of <<0, 0>> to upload-address (0x94), then writes to the
\* upload-data register (0x96) only, and last one 4-byte read of the CRC
\* register (0x97), which comes after the write of the last chunk; the call
\* returns the little-endian value of the bytes read.
C13_UploadOrder ==
    \A h \in Handles :
        op[h].kind = "upload_raw_firmware" =>
            LET t == trace[h]
                last == op[h].size \div 16 + 2
            IN  /\ Len(t) >= 1 => (IsWrite(t[1], 52) /\ t[1].data = << 2 >>)
                /\ Len(t) >= 2 => (IsWrite(t[2], 148) /\ t[2].data = << 0, 0 >>)
                /\ \A i \in 3..Len(t) :
                      \/ IsWrite(t[i], 150) /\ i <= last
                      \/ /\ IsRead(t[i], 151) /\ t[i].len = 4
                         /\ i = last + 1 /\ i = Len(t)
                         /\ \A j \in 1..(i - 1) : t[j].ok
                /\ result[h].tag = "Ok" =>
                      /\ Len(t) = last + 1 /\ IsRead(t[Len(t)], 151)
                      /\ result[h].val = << LeValue4(t[Len(t)].data) >>

\* An upload of two chunks has returned the CRC 0x12345678.
C13_Witness ==
    /\ op[1].kind = "upload_raw_firmware" /\ op[1].size = 32
    /\ Len(trace[1]) = 5
    /\ result[1] = Ok(<< 305419896 >>)

\* The transactions of t that are writes to the upload-data register.
DataWrites(t) == { i \in 1..Len(t) : IsWrite(t[i], 150) }

\* C14: for a body of n bytes the writes to the upload-data register are at
\* most n div 16, exactly n div 16 once the call has succeeded; the k-th
\* holds the 16 body bytes 16(k-1)+1 .. 16k in stream order; the last
\* n mod 16 bytes appear in no write, and the call succeeds all the same.
C14_WholeChunksOnly ==
    \A h \in Handles :
        op[h].kind = "upload_raw_firmware" =>
            LET t == trace[h]
                n == op[h].size
            IN  /\ Cardinality(DataWrites(t)) <= n \div 16
                /\ result[h].tag = "Ok" => Cardinality(DataWrites(t)) = n \div 16
                /\ \A i \in DataWrites(t) :
                      /\ t[i].len = 16
                      /\ t[i].data = [j \in 1..16 |-> FwByte(16 * (i - 3) + j)]

\* An upload of 21 bytes has succeeded after one chunk.
C14_Witness ==
    /\ op[1].kind = "upload_raw_firmware" /\ op[1].size = 21
    /\ result[1].tag = "Ok"
    /\ DataWrites(trace[1]) = {3}

\* An upload of 32 bytes has written its second chunk.
C14_SecondChunk ==
    /\ op[1].kind = "upload_raw_firmware" /\ op[1].size = 32
    /\ 4 \in DataWrites(trace[1]) /\ trace[1][4].ok

\* C15: an upload_raw_firmware call that succeeds returns the value the CRC
\* register presented, whatever it is, and the call writes chip-control
\* once, as its first transaction and with run-request clear.
C15_CrcReturnedCpuHalted ==
    \A h \in Handles :
        op[h].kind = "upload_raw_firmware" =>
            LET t == trace[h]
            IN  /\ result[h].tag = "Ok" =>
                      \E d \in CrcSamples :
                          /\ t[Len(t)].data = d
                          /\ result[h].val = << LeValue4(d) >>
                /\ \A i \in 1..Len(t) :
                      t[i].addr = 52 <=> i = 1
                /\ Len(t) >= 1 => (t[1].rw = "w" /\ t[1].data[1] % 2 = 0)

\* The same body has been uploaded and the CRC register presented 0; in
\* C13_Witness it presented 0x12345678: one of them is not the CRC of the blob.
C15_Witness ==
    /\ op[1].kind = "upload_raw_firmware" /\ op[1].size = 32
    /\ result[1] = Ok(<< 0 >>)
    /\ trace[1][1].data = << 2 >>

----------------------------------------------------------------------------
(* The firmware blob.                                                       *)

\* The buffer is shorter than a header, or its first two bytes are not
\* 0x2A 0x65, or its length is not 16 more than the u16 at offset 12.
Malformed(b) ==
    \/ Len(b) < 16
    \/ b[1] + 256 * b[2] # 25898
    \/ b[13] + 256 * b[14] + 16 # Len(b)

\* C16: Firmware::new returns None for a buffer shorter than 16 bytes, or
\* whose little-endian u16 at offset 0 is not 0x652A, or whose little-endian
\* u16 at offset 12 plus 16 is not its length, and Some for every other
\* buffer; no bus transaction is issued.
C16_NewValidates ==
    fw.stage \notin {"absent", "given"} =>
        /\ fw.made = "None" <=> Malformed(fw.inner)
        /\ fw.made = "Some" <=> ~Malformed(fw.inner)
        /\ \A h \in Handles : trace[h] = <<>>

\* A buffer of 20 bytes with the right signature and the length field 260
\* has been refused.
C16_Witness ==
    /\ fw.stage = "made" /\ fw.made = "None"
    /\ Len(fw.inner) = 20
    /\ SubSeq(fw.inner, 1, 2) = << 42, 101 >>
    /\ SubSeq(fw.inner, 13, 14) = << 4, 1 >>

\* The other cases of C16: a short buffer and a wrong signature refused, a
\* well-formed buffer accepted.
C16_ShortRefused == fw.made = "None" /\ fw.stage = "made" /\ Len(fw.inner) = 15

C16_SignatureRefused ==
    /\ fw.stage = "made" /\ fw.made = "None"
    /\ Len(fw.inner) = 24
    /\ SubSeq(fw.inner, 1, 2) = << 101, 42 >>
    /\ SubSeq(fw.inner, 13, 14) = << 8, 0 >>

C16_Accepted == fw.stage = "made" /\ fw.made = "Some" /\ Len(fw.inner) = 24

\* The buffer with bytes 8..11 and 14..15 set to zero.
Blanked(b) == [i \in 1..Len(b) |-> IF i \in {9, 10, 11, 12, 15, 16} THEN 0 ELSE b[i]]

\* C17: for a validated blob signature() is the little-endian u16 at offset
\* 0, rom_version() the one at offset 2, crc() the little-endian u32 at
\* offsets 4..7 and data_len() the little-endian u16 at offsets 12..13; the
\* four are the same for the blob with bytes 8..11 and 14..15 cleared.
C17_HeaderFields ==
    fw.stage = "fields" =>
        LET b == fw.inner
        IN  /\ fw.fields.signature = b[1] + 256 * b[2]
            /\ fw.fields.rom_version = b[3] + 256 * b[4]
            /\ fw.fields.crc = LeValue4(<< b[5], b[6], b[7], b[8] >>)
            /\ fw.fields.data_len = b[13] + 256 * b[14]
            /\ fw.fields = HeaderFields(Blanked(b))

\* The fields of a blob with CRC 0x12345678 and non-zero reserved bytes.
C17_Witness ==
    /\ fw.stage = "fields"
    /\ fw.fields.crc = 305419896 /\ fw.fields.rom_version = 8208
    /\ fw.inner[9] = 9 /\ fw.inner[15] = 255

\* C18: body() yields, for every whole 4-byte group after the 16-byte
\* header and in the order of the groups, the bytes of the group in reverse
\* order; it yields no byte of the header.
C18_BodySwapsGroups ==
    fw.stage = "body" =>
        LET b == fw.inner
            groups == (Len(b) - 16) \div 4
        IN  /\ Len(fw.body) = 4 * groups
            /\ \A g \in 0..(groups - 1) : \A j \in 1..4 :
                  fw.body[4 * g + j] = b[16 + 4 * g + (5 - j)]

\* The body of a blob of two groups.
C18_Witness ==
    /\ fw.stage = "body" /\ Len(fw.inner) = 24
    /\ fw.body = << 29, 22, 15, 8, 57, 50, 43, 36 >>

\* A blob that Firmware::new has accepted.
Validated == fw.stage \in {"made", "fields", "body", "sent"} /\ fw.made = "Some"

\* The number of bytes that follow the 16-byte header.
BodyLength == Len(fw.inner) - 16

\* C31: the body of every blob Firmware::new accepts has a length that is a
\* multiple of 16, and an upload of its transformed body writes every byte
\* of the body to the upload-data register.
C31_BodyMultipleOf16 ==
    Validated =>
        /\ BodyLength % 16 = 0
        /\ fw.stage = "sent" => Len(fw.sent) = BodyLength

\* What the code does: it accepts every body whose length is the header's
\* length field, and the upload writes the whole 16-byte chunks of the whole
\* 4-byte groups of the body, in swapped order, and nothing of the rest.
C31_RemainderDropped ==
    Validated =>
        /\ BodyLength = fw.inner[13] + 256 * fw.inner[14]
        /\ fw.stage = "sent" =>
              /\ Len(fw.sent) = 16 * ((4 * (BodyLength \div 4)) \div 16)
              /\ fw.sent = SubSeq(fw.body, 1, Len(fw.sent))

\* A blob with a body of 8 bytes is accepted and its upload writes nothing.
C31_NothingSentState ==
    /\ Validated /\ fw.stage = "sent"
    /\ BodyLength = 8 /\ Len(fw.body) = 8
    /\ fw.sent = <<>>

\* A blob with a body of 16 bytes: all 16 are written.
C31_AllSentState ==
    /\ Validated /\ fw.stage = "sent"
    /\ BodyLength = 16 /\ Len(fw.sent) = 16

\* C32: for an accepted blob with a body of n bytes, body() yields exactly n
\* bytes.
C32_BodyYieldsAll ==
    (Validated /\ fw.stage \in {"body", "sent"}) => Len(fw.body) = BodyLength

\* What the code does: body() yields the whole 4-byte groups of the n bytes,
\* which is n only when n is a multiple of 4.
C32_WholeGroupsOnly ==
    (Validated /\ fw.stage \in {"body", "sent"}) =>
        /\ Len(fw.body) = 4 * (BodyLength \div 4)
        /\ Len(fw.body) = BodyLength <=> BodyLength % 4 = 0

\* A blob with a body of 5 bytes is accepted and body() yields 4 bytes.
C32_ByteLostState ==
    /\ Validated /\ fw.stage = "body"
    /\ BodyLength = 5 /\ Len(fw.body) = 4

----------------------------------------------------------------------------
(* The event decoder.                                                       *)

\* The byte of the source at offset i of the record the last call started at.
At(i) == reader.data[reader.from + i]

\* Two bytes as a signed 16-bit value, low byte first.
Signed16(lo, hi) == IF hi >= 128 THEN lo + 256 * hi - 65536 ELSE lo + 256 * hi

\* Accelerometer, geomagnetic field, orientation, gyroscope, gravity, linear
\* acceleration (1, 2, 3, 4, 9, 10) and their wakeup variants (+32).
CoreVectorCodes == {1, 2, 3, 4, 9, 10, 33, 34, 35, 36, 41, 42}

\* The last call was Event::read on a core vector record with its 7 payload
\* bytes present and a status byte in 0..3.
CoreVectorRecord ==
    /\ reader.call = "Event::read"
    /\ reader.from + 8 <= Len(reader.data)
    /\ At(1) \in CoreVectorCodes
    /\ At(8) \in 0..3

\* C19: Event::read on a core vector sensor id followed by 7 payload bytes
\* whose last is in 0..3 returns one event with that id, the vector of the
\* three little-endian signed 16-bit values in x, y, z order and the status
\* of the last byte (0 Unreliable, 1 Low, 2 Medium, 3 High), and consumes
\* exactly 8 bytes.
C19_CoreVectorDecoded ==
    CoreVectorRecord =>
        /\ reader.pos = reader.from + 8
        /\ reader.out.tag = "Ok"
        /\ reader.out.val.id = At(1)
        /\ reader.out.val.data.shape = "VectorStatus"
        /\ reader.out.val.data.ints =
              << Signed16(At(2), At(3)), Signed16(At(4), At(5)), Signed16(At(6), At(7)) >>
        /\ reader.out.val.data.status =
              << "Unreliable", "Low", "Medium", "High" >>[At(8) + 1]

\* The record of the crate's test: Accelerometer, (-2, 5, 2153), Medium.
C19_Witness ==
    /\ reader.call = "Event::read" /\ reader.from = 0 /\ reader.pos = 8
    /\ SubSeq(reader.data, 1, 8) = << 1, 254, 255, 5, 0, 105, 8, 2 >>
    /\ reader.out.tag = "Ok" /\ reader.out.val.id = 1
    /\ reader.out.val.data.ints = << -2, 5, 2153 >>
    /\ reader.out.val.data.status = "Medium"

\* A wakeup variant with the extreme values: LinearAccelerationWakeup,
\* (-32768, 32767, -1), High.
C19_WakeupExtremes ==
    /\ CoreVectorRecord /\ At(1) = 42
    /\ reader.out.tag = "Ok"
    /\ reader.out.val.data.ints = << -32768, 32767, -1 >>
    /\ reader.out.val.data.status = "High"

\* The last call started at an id byte 0.
NoneRecord ==
    /\ reader.call \in {"Event::read", "EventReader::next"}
    /\ reader.from < Len(reader.data)
    /\ At(1) = 0

\* C20: a call that finds the id byte 0 consumes that byte alone and signals
\* no error; EventReader::next yields no event for it and reports the end
\* of the sequence.
C20_NoneEndsSequence ==
    NoneRecord =>
        /\ reader.pos = reader.from + 1
        /\ reader.call = "Event::read" =>
              (reader.out.tag = "Ok" /\ reader.out.val.id = 0
               /\ reader.out.val.data.shape = "None")
        /\ reader.call = "EventReader::next" => reader.out = OptionNone

\* next() has yielded the record of a stream and then met the id byte 0.
C20_Witness ==
    /\ NoneRecord /\ reader.call = "EventReader::next"
    /\ reader.from = 8 /\ reader.pos = 9
    /\ reader.out = OptionNone


\* The byte values that are no code of SensorId.
UnmappedCodes == (26..30) \cup {32} \cup (58..62) \cup (64..244) \cup {255}

\* The last call started at an id byte that SensorId does not map.
UnmappedRecord ==
    /\ reader.call \in {"Event::read", "EventReader::next"}
    /\ reader.from < Len(reader.data)
    /\ At(1) \in UnmappedCodes

\* C21: a call that finds an id byte outside the codes of SensorId consumes
\* that byte alone; Event::read returns the decode error (kind Other) and no
\* event, and EventReader::next yields no event either.
C21_UnmappedIdFails ==
    UnmappedRecord =>
        /\ reader.pos = reader.from + 1
        /\ reader.call = "Event::read" => reader.out = Err("Other")
        /\ reader.call = "EventReader::next" => reader.out = OptionNone

\* Event::read has decoded a record and then met the id byte 26.
C21_Witness ==
    /\ UnmappedRecord /\ reader.call = "Event::read"
    /\ At(1) = 26 /\ reader.from > 0
    /\ reader.pos = reader.from + 1
    /\ reader.out = Err("Other")

\* An unmapped id as the first byte, followed by bytes that stay unread.
C21_BytesLeft ==
    /\ UnmappedRecord /\ reader.call = "Event::read"
    /\ reader.from = 0 /\ At(1) = 255 /\ Len(reader.data) > 1
    /\ reader.pos = 1 /\ reader.out = Err("Other")


\* The uncalibrated magnetic field and gyroscope (14, 16) and their wakeup
\* variants (+32).
UncalibratedCodes == {14, 16, 46, 48}

\* The last call started at a core vector record (7 payload bytes) or an
\* uncalibrated record (13 payload bytes) that is whole in the source and
\* whose last byte, the status, is outside 0..3.
BadStatusRecord ==
    /\ reader.call \in {"Event::read", "EventReader::next"}
    /\ reader.from < Len(reader.data)
    /\ \/ At(1) \in CoreVectorCodes /\ reader.from + 8 <= Len(reader.data)
          /\ At(8) \notin 0..3
       \/ At(1) \in UncalibratedCodes /\ reader.from + 14 <= Len(reader.data)
          /\ At(14) \notin 0..3

\* C22: a core vector or uncalibrated record with a status byte outside 0..3
\* gives its caller a decode error: Event::read returns Err, and
\* EventReader::next returns without an event.
C22_BadStatusIsError ==
    BadStatusRecord =>
        /\ reader.call = "Event::read" => reader.out.tag = "Err"
        /\ reader.call = "EventReader::next" => reader.out = OptionNone

\* What the code does with such a record: the unwrap() of the failed
\* conversion panics, after the whole record has been consumed.
C22_BadStatusPanics ==
    BadStatusRecord =>
        /\ reader.out = Panic
        /\ reader.pos = reader.from + (IF At(1) \in CoreVectorCodes THEN 8 ELSE 14)

\* Event::read on an accelerometer record with the status byte 4.
C22_PanicState ==
    /\ BadStatusRecord /\ reader.call = "Event::read"
    /\ reader.from = 0 /\ At(1) = 1 /\ At(8) = 4
    /\ reader.out = Panic



\* The bytes after the id byte of a record with the id given: 10 for the
\* rotation vectors, 7 for the core vectors, 2 for the 16-bit scalars and
\* the timestamps, 3 for the pressure, 1 for the heart rate and the binary
\* events, 13 for the uncalibrated sensors and Debug, 16 for the raw
\* physical sensors, 3 for the meta events and 0 for the None id.
RotationCodes == {11, 15, 20, 43, 47, 52}

Int16ScalarCodes == {5, 8, 12, 7, 13, 37, 40, 44, 39, 45}

Uint16ScalarCodes == {19, 31, 51, 63, 252, 246, 253, 247}

PressureCodes == {6, 38}

HeartRateCodes == {21, 53}

BinaryEventCodes == {17, 18, 22, 23, 24, 25, 49, 50, 54, 55, 56, 57}

RawCodes == {249, 250, 251}

MetaEventCodes == {254, 248}

PayloadLen(id) ==
    CASE id \in RotationCodes -> 10
      [] id \in CoreVectorCodes -> 7
      [] id \in Int16ScalarCodes \cup Uint16ScalarCodes -> 2
      [] id \in PressureCodes -> 3
      [] id \in HeartRateCodes \cup BinaryEventCodes -> 1
      [] id \in UncalibratedCodes \cup {245} -> 13
      [] id \in RawCodes -> 16
      [] id \in MetaEventCodes -> 3
      [] OTHER -> 0

\* The last call found the byte source exhausted: no id byte was left, or
\* the id byte was a code of SensorId and fewer bytes than its record
\* followed.
ExhaustedPull ==
    /\ reader.call \in {"Event::read", "EventReader::next"}
    /\ \/ reader.from >= Len(reader.data)
       \/ /\ reader.from < Len(reader.data)
          /\ At(1) \notin UnmappedCodes
          /\ reader.from + 1 + PayloadLen(At(1)) > Len(reader.data)

\* C24: a pull that finds the byte source exhausted hands an I/O failure to
\* its caller: Event::read returns Err(UnexpectedEof), and what
\* EventReader::next returns differs from what it returns for a None id.
C24_ExhaustionDistinct ==
    ExhaustedPull =>
        /\ reader.call = "Event::read" => reader.out = Err("UnexpectedEof")
        /\ reader.call = "EventReader::next" => reader.out # OptionNone

\* What the code does: Event::read returns the failure, and
\* EventReader::next turns it into the None it also returns for the id 0.
C24_ExhaustionSwallowed ==
    ExhaustedPull =>
        /\ reader.call = "Event::read" => reader.out = Err("UnexpectedEof")
        /\ reader.call = "EventReader::next" => reader.out = OptionNone

\* next() on a light record cut short after one payload byte.
C24_CutShortState ==
    /\ ExhaustedPull /\ reader.call = "EventReader::next"
    /\ reader.from < Len(reader.data) /\ At(1) = 5
    /\ reader.out = OptionNone


\* The last call was Event::read at a record of the rotation vector family
\* (RotationVector 11, GameRotationVector 15, GeomagneticRotationVector 20
\* and their wakeup variants) with at least n bytes after the id byte.
RotationRecord(n) ==
    /\ reader.call = "Event::read"
    /\ reader.from < Len(reader.data)
    /\ At(1) \in RotationCodes
    /\ reader.from + 1 + n <= Len(reader.data)

\* C27: a record of the rotation vector family consumes exactly 10 bytes
\* after the id byte, decoded as four little-endian int16 (x, y, z, w) and
\* an int16 accuracy; with fewer than 10 bytes left the read fails as on an
\* exhausted source.
C27_RotationTenBytes ==
    /\ RotationRecord(10) =>
          /\ reader.pos = reader.from + 11
          /\ reader.out.tag = "Ok" /\ reader.out.val.id = At(1)
          /\ reader.out.val.data.shape = "QuaternionAccuracy"
          /\ reader.out.val.data.ints =
                << Signed16(At(2), At(3)), Signed16(At(4), At(5)),
                   Signed16(At(6), At(7)), Signed16(At(8), At(9)),
                   Signed16(At(10), At(11)) >>
    /\ (RotationRecord(0) /\ ~RotationRecord(10)) =>
          reader.out = Err("UnexpectedEof")

\* A GameRotationVector record with the extreme values: (-32768, 32767, -1,
\* 259) with accuracy 0.
C27_Witness ==
    /\ RotationRecord(10) /\ At(1) = 15
    /\ reader.pos = reader.from + 11
    /\ reader.out.tag = "Ok"
    /\ reader.out.val.data.ints = << -32768, 32767, -1, 259, 0 >>

\* The statement with 8 bytes: a record of the family with 8 bytes after the
\* id byte is decoded, and 8 bytes after the id byte are consumed.
C27_RotationEightBytes ==
    RotationRecord(8) =>
        /\ reader.out.tag = "Ok"
        /\ reader.pos = reader.from + 9

\* A RotationVector id with 8 bytes after it, the last bytes of the source:
\* the read fails.
C27_EightBytesState ==
    /\ RotationRecord(8) /\ ~RotationRecord(10)
    /\ reader.from + 9 = Len(reader.data)
    /\ reader.out = Err("UnexpectedEof")


\* The last call was an Event::read that returned an event.
ReadSucceeded == reader.call = "Event::read" /\ reader.out.tag = "Ok"

\* C28: a successful Event::read consumes 1 byte plus a count fixed by the
\* sensor id alone, whatever the payload holds: 7 for the core vector
\* sensors, 2 for light, proximity, humidity, temperature, ambient
\* temperature, step counter, activity recognition and the timestamp ids, 3
\* for the pressure, 1 for the heart rate and the binary and gesture sensors,
\* 13 for the uncalibrated sensors and Debug, 16 for the raw physical
\* sensors, 3 for the meta events, 0 for None (and 10 for the rotation
\* vectors).
C28_LengthByIdAlone ==
    ReadSucceeded =>
        /\ reader.out.val.id = At(1)
        /\ reader.pos = reader.from + 1 + PayloadLen(At(1))
        /\ At(1) \in CoreVectorCodes => reader.pos - reader.from = 8
        /\ At(1) \in Int16ScalarCodes \cup Uint16ScalarCodes =>
              reader.pos - reader.from = 3
        /\ At(1) \in PressureCodes => reader.pos - reader.from = 4
        /\ At(1) \in HeartRateCodes \cup BinaryEventCodes =>
              reader.pos - reader.from = 2
        /\ At(1) \in UncalibratedCodes \cup {245} => reader.pos - reader.from = 14
        /\ At(1) \in RawCodes => reader.pos - reader.from = 17
        /\ At(1) \in MetaEventCodes => reader.pos - reader.from = 4
        /\ At(1) = 0 => reader.pos - reader.from = 1

\* A raw gyroscope record, the longest one, with bytes left after it.
C28_Witness ==
    /\ ReadSucceeded /\ At(1) = 250
    /\ reader.pos = reader.from + 17
    /\ reader.pos < Len(reader.data)

\* A pressure record at the start of the source.
C28_PressureState ==
    /\ ReadSucceeded /\ At(1) = 6
    /\ reader.from = 0 /\ reader.pos = 4

\* C29: a scalar payload becomes a 32-bit signed integer of the same value:
\* light, proximity, humidity, temperature and ambient temperature are a
\* signed little-endian int16 (-32768..32767); step counter, activity
\* recognition and the timestamps an unsigned int16 (0..65535); the pressure
\* an unsigned 24-bit value (0..16777215); the heart rate an unsigned byte
\* (0..255); no unsigned kind gives a negative scalar.
C29_ScalarsWidened ==
    ReadSucceeded =>
        LET v == reader.out.val.data.ints[1]
            Scalar == reader.out.val.data.shape = "Scalar"
                      /\ Len(reader.out.val.data.ints) = 1
        IN  /\ At(1) \in Int16ScalarCodes =>
                  /\ Scalar /\ v = Signed16(At(2), At(3))
                  /\ v \in -32768..32767
            /\ At(1) \in Uint16ScalarCodes =>
                  /\ Scalar /\ v = At(2) + 256 * At(3)
                  /\ v \in 0..65535
            /\ At(1) \in PressureCodes =>
                  /\ Scalar /\ v = At(2) + 256 * At(3) + 65536 * At(4)
                  /\ v \in 0..16777215
            /\ At(1) \in HeartRateCodes =>
                  /\ Scalar /\ v = At(2)
                  /\ v \in 0..255

\* A step counter of 65534, which a signed reading would make -2.
C29_Witness ==
    /\ ReadSucceeded /\ At(1) = 19
    /\ At(2) = 254 /\ At(3) = 255
    /\ reader.out.val.data.ints = << 65534 >>

\* A temperature of -32768.
C29_NegativeState ==
    /\ ReadSucceeded /\ At(1) = 7
    /\ reader.out.val.data.ints = << -32768 >>

\* A pressure with the top bit of its third byte set: 16744448.
C29_PressureState ==
    /\ ReadSucceeded /\ At(1) = 38
    /\ reader.out.val.data.ints = << 16744448 >>

\* A heart rate of 254.
C29_HeartRateState ==
    /\ ReadSucceeded /\ At(1) = 21
    /\ reader.out.val.data.ints = << 254 >>


\* The call that ends a step has yielded an event: Event::read returned Ok,
\* or EventReader::next returned Some.
PullYielded ==
    /\ reader'.call \in {"Event::read", "EventReader::next"}
    /\ reader'.out.tag \in {"Ok", "Some"}

\* C30: each pull starts where the pull before it left the byte source, and
\* a pull that yields an event leaves the source exactly one record further:
\* at the id byte plus the payload length of that id, so that no byte of the
\* following record is taken; the bytes of the source themselves are not
\* touched.
C30_OneRecordPerPull ==
    [][ /\ reader'.data = reader.data
        /\ reader'.from = reader.pos
        /\ PullYielded =>
              /\ reader'.from < Len(reader.data)
              /\ reader'.pos = reader'.from + 1
                                 + PayloadLen(reader.data[reader'.from + 1])
              /\ reader'.pos <= Len(reader.data)
      ]_vars

\* After a first pull, next() has yielded, from where that pull left the
\* source, the accelerometer record that follows.
C30_Witness ==
    /\ reader.call = "EventReader::next"
    /\ reader.from > 0 /\ reader.pos = reader.from + 8
    /\ reader.out.tag = "Some"
    /\ reader.out.val.id = 1
    /\ reader.out.val.data.ints = << -2, 5, 2153 >>
    /\ reader.out.val.data.status = "Medium"


\* The sensor ids that have a wakeup variant, and the code of the variant:
\* n + 32 for 1..25 and 31, and 246, 247, 248 for 252, 253, 254.
PairedCodes == (1..25) \cup {31, 252, 253, 254}

WakeupOf(n) == IF n < 64 THEN n + 32 ELSE n - 6

\* The last call was Event::read at a record whose id has a wakeup variant.
PairedRecord ==
    /\ reader.call = "Event::read"
    /\ reader.from < Len(reader.data)
    /\ At(1) \in PairedCodes

\* C37: every id in 1..25 and 31, and 252, 253 and 254, is a code of
\* SensorId and so is its wakeup variant; Event::read on the same bytes with
\* the id replaced by the variant ends the same way, and where it returns an
\* event, the event has the same payload value and shape, and the same
\* number of bytes has been consumed.
C37_WakeupDecodedAlike ==
    PairedRecord =>
        LET rest == SubSeq(reader.data, reader.from + 2, Len(reader.data))
            wakeup == Event_read(<< WakeupOf(At(1)) >> \o rest, 0, TRUE)
        IN  /\ At(1) \notin UnmappedCodes
            /\ WakeupOf(At(1)) \notin UnmappedCodes
            /\ PayloadLen(WakeupOf(At(1))) = PayloadLen(At(1))
            /\ wakeup.res.tag = reader.out.tag
            /\ reader.out.tag = "Ok" =>
                  /\ reader.out.val.id = At(1)
                  /\ wakeup.res.val.id = WakeupOf(At(1))
                  /\ wakeup.res.val.data = reader.out.val.data
                  /\ wakeup.pos = reader.pos - reader.from
            /\ reader.out.tag # "Ok" => wakeup.res = reader.out

\* An accelerometer record (id 1, wakeup 33) read after another record.
C37_Witness ==
    /\ PairedRecord /\ At(1) = 1 /\ reader.from > 0
    /\ reader.out.tag = "Ok"
    /\ reader.out.val.data.ints = << -2, 5, 2153 >>
    /\ reader.pos = reader.from + 8

\* A timestamp record (id 252, wakeup 246).
C37_TimestampState ==
    /\ PairedRecord /\ At(1) = 252
    /\ reader.out.tag = "Ok"
    /\ reader.out.val.data.ints = << 65534 >>

\* A light record (id 5, wakeup 37) holding a negative value.
C37_LightState ==
    /\ PairedRecord /\ At(1) = 5
    /\ reader.out.tag = "Ok"
    /\ reader.out.val.data.ints = << -2 >>

----------------------------------------------------------------------------
(* The conversions of packet.rs.                                            *)

\* SensorStatus::try_from has been applied to the byte in reader.data.
StatusConverted == reader.call = "SensorStatus::try_from"

\* C23: SensorStatus::try_from gives Unreliable for 0, Low for 1, Medium for
\* 2, High for 3, and an error for every byte 4..255.
C23_StatusMapping ==
    StatusConverted =>
        /\ reader.data[1] = 0 => reader.out = Ok("Unreliable")
        /\ reader.data[1] = 1 => reader.out = Ok("Low")
        /\ reader.data[1] = 2 => reader.out = Ok("Medium")
        /\ reader.data[1] = 3 => reader.out = Ok("High")
        /\ reader.data[1] \in 4..255 => reader.out.tag = "Err"

\* The refusal of 4, the first byte past the range.
C23_Witness ==
    /\ StatusConverted
    /\ reader.data[1] = 4 /\ reader.out.tag = "Err"

\* The conversion of 3, the last byte of the range.
C23_HighState ==
    /\ StatusConverted
    /\ reader.data[1] = 3 /\ reader.out = Ok("High")


\* MetaEvent::from_bytes has been applied to the three bytes in reader.data.
MetaConverted == reader.call = "MetaEvent::from_bytes"

\* The variant the first byte of a meta event stands for.
MetaVariant(code) ==
    CASE code = 1 -> "FlushComplete"
      [] code = 2 -> "SampleRateChanged"
      [] code = 3 -> "PowerModeChanged"
      [] code = 4 -> "Error"
      [] code = 11 -> "SensorError"
      [] code = 12 -> "FifoOverflow"
      [] code = 13 -> "DynamicRangeChanged"
      [] code = 14 -> "FifoWatermark"
      [] code = 15 -> "SelfTestResult"
      [] code = 16 -> "Initialized"
      [] OTHER -> "Reserved"

\* The first bytes whose event names a sensor in the second byte.
SensorCarrying == {1, 2, 3, 11, 13, 15}

\* C25: MetaEvent::from_bytes selects the variant by the first byte (1
\* FlushComplete, 2 SampleRateChanged, 3 PowerModeChanged, 4 Error, 11
\* SensorError, 12 FifoOverflow, 13 DynamicRangeChanged, 14 FifoWatermark, 15
\* SelfTestResult, 16 Initialized): whatever it returns has that variant, it
\* returns one for 4, 12, 14 and 16 always and for the sensor-carrying codes
\* when the second byte is a code of SensorId, the value of 12, 14 and 16 is
\* the two trailing bytes as a little-endian u16, and a first byte of 0 or
\* above 16 gives no event.
C25_VariantByFirstByte ==
    MetaConverted =>
        LET code == reader.data[1]
            b1 == reader.data[2]
            b2 == reader.data[3]
        IN  /\ reader.out.tag = "Some" =>
                  /\ code \in 1..16
                  /\ reader.out.val.variant = MetaVariant(code)
            /\ (code = 0 \/ code > 16) => reader.out = OptionNone
            /\ code \in {4, 12, 14, 16} => reader.out.tag = "Some"
            /\ (code \in SensorCarrying /\ b1 \notin UnmappedCodes) =>
                  /\ reader.out.tag = "Some"
                  /\ reader.out.val.args[1] = b1
            /\ code \in {12, 14, 16} => reader.out.val.args = << b1 + 256 * b2 >>
            /\ code = 4 => reader.out.val.args = << b1, b2 >>

\* [12, 0x05, 0x00] gives FifoOverflow(5).
C25_Witness ==
    /\ MetaConverted
    /\ reader.data = << 12, 5, 0 >>
    /\ reader.out = Some(Meta("FifoOverflow", << 5 >>))

\* A value whose two bytes differ: [16, 0, 255] gives Initialized(65280).
C25_HighByteState ==
    /\ MetaConverted
    /\ reader.data = << 16, 0, 255 >>
    /\ reader.out = Some(Meta("Initialized", << 65280 >>))

\* The first byte past the range: 17 gives no event.
C25_OutOfRangeState ==
    /\ MetaConverted
    /\ reader.data[1] = 17
    /\ reader.out = OptionNone

\* C26: for every first byte in 5..10, whatever the two trailing bytes are,
\* MetaEvent::from_bytes returns Reserved.
C26_ReservedNeverFails ==
    (MetaConverted /\ reader.data[1] \in 5..10) =>
        reader.out = Some(Meta("Reserved", <<>>))

\* The last reserved code with a second byte that is no code of SensorId.
C26_Witness ==
    /\ MetaConverted
    /\ reader.data = << 10, 255, 255 >>
    /\ reader.out = Some(Meta("Reserved", <<>>))


----------------------------------------------------------------------------
(* The event sequence.                                                      *)

\* The three payload bytes of a meta event are accepted: the code is in
\* 1..16 and, where the event names a sensor, the second byte is a code of
\* SensorId.
MetaAccepted(code, sensor) ==
    /\ code \in 1..16
    /\ code \in SensorCarrying => sensor \notin UnmappedCodes

\* At offset p of d a record starts that is whole and well formed and has a
\* sensor id other than None: a status byte, where it has one, is in 0..3,
\* and a meta event is an accepted one.
WellFormedAt(d, p) ==
    /\ p < Len(d)
    /\ d[p + 1] \notin UnmappedCodes \cup {0}
    /\ p + 1 + PayloadLen(d[p + 1]) <= Len(d)
    /\ d[p + 1] \in CoreVectorCodes => d[p + 8] \in 0..3
    /\ d[p + 1] \in UncalibratedCodes => d[p + 14] \in 0..3
    /\ d[p + 1] \in MetaEventCodes => MetaAccepted(d[p + 2], d[p + 3])

\* The sensor ids of the records of d from offset p on, when d is made of
\* well-formed records followed by one unmapped id byte, its last byte; the
\* sequence << -1 >> when d is not of that form.
RECURSIVE RecordIds(_, _)
RecordIds(d, p) ==
    IF p + 1 = Len(d) /\ d[p + 1] \in UnmappedCodes THEN << >>
    ELSE IF WellFormedAt(d, p)
    THEN LET rest == RecordIds(d, p + 1 + PayloadLen(d[p + 1]))
         IN  IF rest = << -1 >> THEN rest ELSE << d[p + 1] >> \o rest
    ELSE << -1 >>

\* The events an iteration over the source d yields from offset p on, up to
\* the first None.
RECURSIVE Collected(_, _)
Collected(d, p) ==
    LET r == Event_read(d, p, TRUE)
        out == EventReader_next(r.res)
    IN  IF out.tag = "Some" THEN << out.val >> \o Collected(d, r.pos) ELSE << >>

\* The source without its last byte.
Trimmed == SubSeq(reader.data, 1, Len(reader.data) - 1)

\* The source is made of k well-formed records and a trailing unmapped id,
\* and next() has been called on it.
RecordsThenBadId ==
    /\ reader.call = "EventReader::next"
    /\ Len(reader.data) > 0
    /\ RecordIds(reader.data, 0) # << -1 >>

\* C33: iterating a source made of k well-formed records and a trailing
\* unmapped id byte yields the k events of the records, in their order and
\* with the values the source without the trailing byte gives, and then
\* reports the end; the failing pull takes only the bad byte and leaves the
\* events yielded before it as they were.
C33_RecordsBeforeBadId ==
    RecordsThenBadId =>
        LET ids == RecordIds(reader.data, 0)
            expected == Collected(Trimmed, 0)
            n == Len(reader.yielded)
        IN  /\ Len(expected) = Len(ids)
            /\ n <= Len(ids)
            /\ reader.yielded = SubSeq(expected, 1, n)
            /\ \A i \in 1..n : reader.yielded[i].id = ids[i]
            /\ ~reader.ended => (reader.out.tag = "Some" /\ reader.pos < Len(reader.data))
            /\ reader.ended =>
                  /\ n = Len(ids)
                  /\ reader.out = OptionNone
                  /\ reader.pos = Len(reader.data)

\* Two records and the unmapped id 26: next() has yielded a humidity event
\* and the accelerometer event of the test, and then reported the end.
C33_Witness ==
    /\ RecordsThenBadId /\ reader.ended
    /\ RecordIds(reader.data, 0) = << 12, 1 >>
    /\ Len(reader.yielded) = 2
    /\ reader.yielded[1].data.ints = << -32768 >>
    /\ reader.yielded[2].data.ints = << -2, 5, 2153 >>
    /\ reader.yielded[2].data.status = "Medium"
    /\ reader.from = Len(reader.data) - 1


\* C34: EventReader has no finished state.  A next() called after next() has
\* reported the end of the sequence starts at the position the byte source
\* was left at, and does what a first pull would do there: it yields the
\* event of a well-formed record that starts there, and no event otherwise.
C34_NoFinishedState ==
    [][ (reader.ended /\ reader'.call = "EventReader::next") =>
           /\ reader'.from = reader.pos
           /\ WellFormedAt(reader.data, reader.pos) =>
                 /\ reader'.out.tag = "Some"
                 /\ reader'.out.val.id = reader.data[reader.pos + 1]
                 /\ reader'.pos = reader.pos + 1
                                    + PayloadLen(reader.data[reader.pos + 1])
                 /\ reader'.yielded = Append(reader.yielded, reader'.out.val)
           /\ ~WellFormedAt(reader.data, reader.pos) =>
                 /\ reader'.out.tag # "Some"
                 /\ reader'.yielded = reader.yielded
      ]_vars

\* next() returned None at a None id, and the next() after it has yielded
\* the accelerometer event of the record that follows.
C34_Witness ==
    /\ reader.call = "EventReader::next" /\ reader.ended
    /\ Len(reader.data) > 1
    /\ reader.data[1] = 0 /\ reader.from = 1
    /\ reader.out.tag = "Some" /\ reader.out.val.id = 1
    /\ reader.yielded = << reader.out.val >>
    /\ reader.out.val.data.ints = << -2, 5, 2153 >>

\* The same after a decode error: the unmapped id 26, then the record.
C34_AfterErrorState ==
    /\ reader.call = "EventReader::next" /\ reader.ended
    /\ Len(reader.data) > 1
    /\ reader.data[1] = 26 /\ reader.from = 1
    /\ reader.out.tag = "Some" /\ reader.out.val.id = 1
    /\ reader.yielded = << reader.out.val >>

\* The same after an exhausted source: a pressure id with two bytes left
\* fails, the source keeps the two bytes, and the next pull reads them as a
\* significant-motion record.
C34_AfterExhaustionState ==
    /\ reader.call = "EventReader::next" /\ reader.ended
    /\ reader.data = << 6, 17, 3 >> /\ reader.from = 1
    /\ reader.out.tag = "Some" /\ reader.out.val.id = 17
    /\ reader.yielded = << reader.out.val >>


\* Event::read has been applied to a record made of a meta event id and
\* three bytes.
MetaRecordRead ==
    /\ reader.call = "Event::read"
    /\ Len(reader.data) = 4 /\ reader.from = 0
    /\ reader.data[1] \in MetaEventCodes

\* C38: for the meta event codes 1, 2, 3, 11, 13 and 15 the second byte has
\* to be a code of SensorId: when it is not, MetaEvent::from_bytes returns
\* no event and Event::read returns the decode error (kind Other) with the
\* three payload bytes consumed; when it is, both return the event.  For the
\* codes 4, 12, 14 and 16 every value of the two trailing bytes gives an
\* event.
C38_MetaSensorByte ==
    /\ MetaConverted =>
          LET code == reader.data[1]
              sensor == reader.data[2]
          IN  /\ (code \in SensorCarrying /\ sensor \in UnmappedCodes) =>
                    reader.out = OptionNone
              /\ (code \in SensorCarrying /\ sensor \notin UnmappedCodes) =>
                    (reader.out.tag = "Some" /\ reader.out.val.args[1] = sensor)
              /\ code \in {4, 12, 14, 16} => reader.out.tag = "Some"
    /\ MetaRecordRead =>
          LET code == reader.data[2]
              sensor == reader.data[3]
          IN  /\ (code \in SensorCarrying /\ sensor \in UnmappedCodes) =>
                    (reader.out = Err("Other") /\ reader.pos = 4)
              /\ (code \in SensorCarrying /\ sensor \notin UnmappedCodes) =>
                    /\ reader.out.tag = "Ok" /\ reader.pos = 4
                    /\ reader.out.val.data.meta.variant = MetaVariant(code)
                    /\ reader.out.val.data.meta.args[1] = sensor
              /\ code \in {4, 12, 14, 16} =>
                    /\ reader.out.tag = "Ok" /\ reader.pos = 4
                    /\ reader.out.val.data.shape = "MetaEvent"
                    /\ reader.out.val.data.meta.variant = MetaVariant(code)

\* Event::read on a SensorError record that names the unmapped sensor 255.
C38_Witness ==
    /\ MetaRecordRead
    /\ reader.data = << 254, 11, 255, 0 >>
    /\ reader.out = Err("Other") /\ reader.pos = 4

\* MetaEvent::from_bytes on a FlushComplete that names the unmapped sensor 26.
C38_FromBytesState ==
    /\ MetaConverted
    /\ reader.data = << 1, 26, 0 >>
    /\ reader.out = OptionNone

\* An Error event of a wakeup meta record with both trailing bytes 255.
C38_ErrorEventState ==
    /\ MetaRecordRead
    /\ reader.data = << 248, 4, 255, 255 >>
    /\ reader.out.tag = "Ok"
    /\ reader.out.val.data.meta = Meta("Error", << 255, 255 >>)

====
